---- MODULE Spec2Model ----
(***************************************************************************)
(* Wulf-Forge: a model of the entity manager with its dirty-mask delta     *)
(* encoding (core/entity.py, core/entity_manager.py,                       *)
(* network/packets/update_array.py) and of the session handshake with the  *)
(* UDP receiver (main.py, network/udp_handler.py).                         *)
(***************************************************************************)
EXTENDS Integers, Sequences, FiniteSets, TLC

VARIABLES
    entities,      \* EntityManager._entities: the dict, in insertion order
    next_net_id,   \* EntityManager._next_net_id
    result,        \* what the last EntityManager call returned (or raised)
    pc,            \* where main()'s accept loop stands
    session,       \* how many clients main() has accepted
    root_event,    \* udp_root_received (threading.Event)
    udp_client_addr, \* main.py's udp_client_addr global
    tcp_log,       \* the handshake traffic of the current TCP session, in order
    session_keys,  \* the keys sent in Hello(session-key) to the current session
    earlier_keys,  \* the keys sent in Hello(session-key) to the sessions before it
    last_active,   \* the replies to the last packet of the listen loop
    stop_event,    \* per session, stop_ping_event
    ping,          \* per session, where its ping thread stands
    ping_loop,     \* per session, the statement of start_ping_loop's loop its thread
                   \* is at, and the requests it sent after the stop signal
    outgoingSequenceNumber,  \* UDPHandler.outgoingSequenceNumber
    last_udp,      \* the last datagram process_packet handled, with its replies
    acks_sent,     \* per address, how many standard ACKs sock.sendto has sent there
    pkt_items,     \* UpdateArrayPacket.entities of one packet being filled
    pkt_out,       \* what get_bytes returned for that packet, if it was called
    handlers,      \* PacketDispatcher._handlers: the opcodes that have a handler
    on_unknown,    \* whether the PacketDispatcher was given an on_unknown
    packet_map,    \* UDPHandler.packet_map: the opcodes that have a handler
    dispatched,    \* the last payload dispatched, with the handlers it invoked
    tcp,           \* one TCP connection: the bytes under way and its receive loop
    writer,        \* a PacketWriter: _buffer, _current_byte, _bit_index
    written,       \* the calls made on the writer, in order
    reader,        \* a PacketReader on what get_bytes returned
    reads,         \* the read_bits calls made on the reader, with what they returned
    bit_pc,        \* whether the stream is being written or read
    str_io,        \* one string written with write_string and read with read_string
    quant,         \* one value given to compress, and what decompress makes of it
    ser,           \* one entity given to EntitySerializer.serialize, and what came of it
    udp_loop,      \* the UDP receive thread: whether it runs, and the errors it has caught
    tick,          \* the passes of the clients over the entities in one tick of the world
    login_in,      \* the packet a login loop of main() read last
    upd,           \* one UpdateArrayPacket, its writer, and what its get_bytes calls returned
    batch          \* process_packet on one datagram, turn by turn of its loop

ent_vars == <<entities, next_net_id, result>>

tcp_vars == <<pc, session, tcp_log, session_keys, earlier_keys, last_active, stop_event,
             ping, ping_loop>>

udp_vars == <<outgoingSequenceNumber, last_udp, acks_sent>>

net_vars == <<pc, session, root_event, udp_client_addr, tcp_log, session_keys,
              earlier_keys, last_active, stop_event, ping, ping_loop,
              outgoingSequenceNumber, last_udp, acks_sent>>

pkt_vars == <<pkt_items, pkt_out>>

disp_vars == <<handlers, on_unknown, packet_map, dispatched>>

bit_vars == <<writer, written, reader, reads, bit_pc>>

aux_vars == <<tcp, bit_vars, str_io, quant, ser, udp_loop, tick, login_in, upd, batch>>

vars == <<entities, next_net_id, result, pc, session, root_event, udp_client_addr,
          tcp_log, session_keys, earlier_keys, last_active, stop_event, ping,
          outgoingSequenceNumber, last_udp, acks_sent, pkt_items, pkt_out, handlers, on_unknown,
          packet_map, dispatched, tcp, ping_loop, writer, written, reader, reads,
          bit_pc, str_io, quant,
          ser,
          udp_loop,
          tick,
          login_in,
          upd,
          batch>>

-----------------------------------------------------------------------------
(* Bounds of the model *)

MaxEntities == 2
MaxNetId == 2
MaxSessions == 2
MaxKeyReq == 1
MaxAcks == 1
MaxUdpAcks == 2
MaxPayload == 3
MaxFrames == 2
MaxFields == 3
MaxText == 2
MaxAdded == 256

-----------------------------------------------------------------------------
(* core/entity.py: UpdateMask *)

DEFINITION == 1
POS == 2
VEL == 4
ROT == 8
SPIN == 16
HEALTH == 32
WEAPON == 64
ENERGY == 128
OWNER == 256
HARD_SYNC == 512

MaskBits == 10

CountBits == 8

RECURSIVE BitOr(_, _)
BitOr(a, b) ==
    IF a = 0 THEN b
    ELSE IF b = 0 THEN a
    ELSE (IF a % 2 = 1 \/ b % 2 = 1 THEN 1 ELSE 0) + 2 * BitOr(a \div 2, b \div 2)

RECURSIVE BitAnd(_, _)
BitAnd(a, b) ==
    IF a = 0 \/ b = 0 THEN 0
    ELSE (IF a % 2 = 1 /\ b % 2 = 1 THEN 1 ELSE 0) + 2 * BitAnd(a \div 2, b \div 2)

RECURSIVE Pow2(_)
Pow2(n) == IF n = 0 THEN 1 ELSE 2 * Pow2(n - 1)

\* PacketWriter.write_bits(value, n) keeps the low n bits of value
LowBits(value, n) == value % Pow2(n)

\* a mark_dirty that adds the mask instead of or-ing it in, for comparison
mark_dirty_adding(e, mask) == [e EXCEPT !.pending_mask = e.pending_mask + mask]

\* GameEntity.mark_dirty: pending_mask |= mask
mark_dirty(e, mask) == [e EXCEPT !.pending_mask = BitOr(e.pending_mask, mask)]

\* GameEntity.clear_dirty: pending_mask = 0
clear_dirty(e) == [e EXCEPT !.pending_mask = 0]

-----------------------------------------------------------------------------
(* Inputs the actions draw from *)

NoId == -1   \* override_net_id is None

UnitTypes == {5}
Teams == {1}
OverrideIds == {1, 2}

\* masks handed to mark_dirty: POS by set_pos, HEALTH and ENERGY by set_stats,
\* and SPIN as one of the bits of UpdateMask that no field of GameEntity backs
MarkMasks == {POS, SPIN, BitOr(HEALTH, ENERGY)}

-----------------------------------------------------------------------------
(* Helpers on the dict *)

Range(s) == {s[i] : i \in 1..Len(s)}

NetIds(ents) == {ents[i].net_id : i \in 1..Len(ents)}

IndexOf(ents, id) == CHOOSE i \in 1..Len(ents) : ents[i].net_id = id

\* self._entities[net_id] = entity: a new key is appended, an existing key
\* keeps its place and gets the new value
DictSet(ents, e) ==
    IF e.net_id \in NetIds(ents)
    THEN [ents EXCEPT ![IndexOf(ents, e.net_id)] = e]
    ELSE Append(ents, e)

\* a removal that drops the newest entry of the dict, for comparison
DictDelNewest(ents, id) == SubSeq(ents, 1, Len(ents) - 1)

\* del self._entities[net_id]
DictDel(ents, id) ==
    LET k == IndexOf(ents, id)
    IN  SubSeq(ents, 1, k - 1) \o SubSeq(ents, k + 1, Len(ents))

\* the indices, in dict order, of the entities with pending_mask > 0
DirtyIndices(ents) ==
    SelectSeq([i \in 1..Len(ents) |-> i], LAMBDA i : ents[i].pending_mask > 0)

AllIndices(ents) == [i \in 1..Len(ents) |-> i]

\* EntityManager.get_dirty_entities
get_dirty_entities(ents) == SelectSeq(ents, LAMBDA e : e.pending_mask > 0)

\* EntityManager.get_all
get_all(ents) == ents

-----------------------------------------------------------------------------
(* network/packets/update_array.py *)

Has(mask, bit) == BitAnd(mask, bit) # 0

\* EntitySerializer.serialize, step 1: the mask is a local copy of pending_mask
SerMask(e, force_definition) ==
    IF force_definition THEN BitOr(e.pending_mask, DEFINITION) ELSE e.pending_mask

\* the Definition block: unit type, team, team again, the extra fields of unit
\* types 37 and 19, the snap flag
DefinitionBlock(e) ==
    <<"unit_type", "team_id", "team_id">>
    \o (IF e.unit_type = 37 THEN <<"int32", "int32">>
        ELSE IF e.unit_type = 19 THEN <<"cargo_unit">>
        ELSE <<>>)
    \o <<"snap">>

\* a serializer that writes the stats before the vectors, for comparison
BlocksStatsFirst(e, mask) ==
    (IF Has(mask, DEFINITION) THEN DefinitionBlock(e) ELSE <<>>)
    \o (IF Has(mask, HEALTH) THEN <<"health">> ELSE <<>>)
    \o (IF Has(mask, ENERGY) THEN <<"energy">> ELSE <<>>)
    \o (IF Has(mask, POS) THEN <<"pos">> ELSE <<>>)
    \o (IF Has(mask, VEL) THEN <<"vel">> ELSE <<>>)
    \o (IF Has(mask, ROT) THEN <<"rot">> ELSE <<>>)
    \o (IF Has(mask, SPIN) THEN <<"spin">> ELSE <<>>)
    \o (IF Has(mask, OWNER) THEN <<"owner">> ELSE <<>>)

\* the blocks serialize writes after the header, in the order of its if-chain;
\* WEAPON and HARD_SYNC write nothing
Blocks(e, mask) ==
    (IF Has(mask, DEFINITION) THEN DefinitionBlock(e) ELSE <<>>)
    \o (IF Has(mask, POS) THEN <<"pos">> ELSE <<>>)
    \o (IF Has(mask, VEL) THEN <<"vel">> ELSE <<>>)
    \o (IF Has(mask, ROT) THEN <<"rot">> ELSE <<>>)
    \o (IF Has(mask, SPIN) THEN <<"spin">> ELSE <<>>)
    \o (IF Has(mask, HEALTH) THEN <<"health">> ELSE <<>>)
    \o (IF Has(mask, ENERGY) THEN <<"energy">> ELSE <<>>)
    \o (IF Has(mask, OWNER) THEN <<"owner">> ELSE <<>>)

\* serialize reads entity.spin for the SPIN bit, and GameEntity has no such
\* attribute: AttributeError
SerializeRaises(e, force_definition) == Has(SerMask(e, force_definition), SPIN)

\* the record serialize writes: net id, is_manned, the 10-bit mask, the blocks
serialize(e, force_definition) ==
    [net_id |-> e.net_id,
     mask   |-> LowBits(SerMask(e, force_definition), MaskBits),
     blocks |-> Blocks(e, SerMask(e, force_definition))]

\* a serializer that consumes the dirty flags as it writes, for comparison
serialize_clearing(e, force_definition) == clear_dirty(e)

\* what serialize leaves of the entity it was handed: `mask |= DEFINITION`
\* rebinds the local, the entity is not written
serialize_effect(e, force_definition) == e

\* UpdateArrayPacket.get_bytes over the (entity, force_spawn) pairs added to
\* the packet; an item is [idx, force_spawn], idx the entity's place in ents
GetBytesRaises(ents, items) ==
    \E k \in 1..Len(items) : SerializeRaises(ents[items[k].idx], items[k].force_spawn)

get_bytes(ents, local_stats, items) ==
    [stats |-> local_stats,
     count |-> LowBits(Len(items), CountBits),
     recs  |-> [k \in 1..Len(items) |->
                   serialize(ents[items[k].idx], items[k].force_spawn)]]

\* the entities after get_bytes ran over the items
AfterGetBytes(ents, items) ==
    [i \in 1..Len(ents) |->
        IF \E k \in 1..Len(items) : items[k].idx = i
        THEN LET k == CHOOSE k \in 1..Len(items) : items[k].idx = i
             IN  serialize_effect(ents[i], items[k].force_spawn)
        ELSE ents[i]]

-----------------------------------------------------------------------------
(* core/entity_manager.py *)

EntInit ==
    /\ entities = <<>>
    /\ next_net_id = 1
    /\ result = [op |-> "init", kind |-> "none"]

NewEntity(net_id, unit_type, team_id) ==
    mark_dirty([net_id |-> net_id, unit_type |-> unit_type, team_id |-> team_id,
                pending_mask |-> 0],
               BitOr(BitOr(DEFINITION, HEALTH), POS))

CreateEntity ==
    \E unit_type \in UnitTypes, team_id \in Teams, override \in OverrideIds \cup {NoId} :
        LET net_id == IF override # NoId THEN override ELSE next_net_id
        IN  /\ override = NoId => next_net_id <= MaxNetId
            /\ net_id \notin NetIds(entities) => Len(entities) < MaxEntities
            /\ next_net_id' = IF override # NoId THEN next_net_id ELSE next_net_id + 1
            /\ entities' = DictSet(entities, NewEntity(net_id, unit_type, team_id))
            /\ result' = [op |-> "create_entity", kind |-> "entity", net_id |-> net_id]
            /\ UNCHANGED <<net_vars, pkt_vars, disp_vars, aux_vars>>

\* network.packets.gameplay.DeleteObjectPacket(net_id=net_id): the deletion
\* notification, which carries the net id
DeleteObjectPacket(net_id) ==
    [op |-> "remove_entity", kind |-> "delete_packet", net_id |-> net_id]

RemoveEntity ==
    \E net_id \in OverrideIds :
        /\ IF net_id \in NetIds(entities)
           THEN /\ entities' = DictDel(entities, net_id)
                /\ result' = DeleteObjectPacket(net_id)
           ELSE /\ entities' = entities
                /\ result' = [op |-> "remove_entity", kind |-> "none", net_id |-> net_id]
        /\ UNCHANGED <<next_net_id, net_vars, pkt_vars, disp_vars, aux_vars>>

\* get_entity(net_id): self._entities.get(net_id)
GetEntity ==
    \E net_id \in OverrideIds :
        /\ result' = [op |-> "get_entity",
                      kind |-> IF net_id \in NetIds(entities) THEN "entity" ELSE "none",
                      net_id |-> net_id]
        /\ UNCHANGED <<entities, next_net_id, net_vars, pkt_vars, disp_vars, aux_vars>>

\* get_entity(net_id).mark_dirty(mask), as set_pos, set_stats and the map
\* loader do on an entity they hold
MarkDirty ==
    \E i \in 1..Len(entities), mask \in MarkMasks :
        /\ entities' = [entities EXCEPT ![i] = mark_dirty(entities[i], mask)]
        /\ result' = [op |-> "mark_dirty", kind |-> "none",
                      net_id |-> entities[i].net_id, mask |-> mask]
        /\ UNCHANGED <<next_net_id, net_vars, pkt_vars, disp_vars, aux_vars>>

ClearAllDirtyFlags ==
    /\ entities' = [i \in 1..Len(entities) |-> clear_dirty(entities[i])]
    /\ result' = [op |-> "clear_all_dirty_flags", kind |-> "none"]
    /\ UNCHANGED <<next_net_id, net_vars, pkt_vars, disp_vars, aux_vars>>

Items(idxs, force_spawn) ==
    [k \in 1..Len(idxs) |-> [idx |-> idxs[k], force_spawn |-> force_spawn]]

\* lines 132-134: clear_dirty on every entity of dirty_entities
ClearListed(ents, idxs) ==
    [i \in 1..Len(ents) |->
        IF \E k \in 1..Len(idxs) : idxs[k] = i THEN clear_dirty(ents[i]) ELSE ents[i]]

\* get_dirty_packet and get_dirty_packet_view: the same body, opcode 0x0E
\* without and 0x0F with the timestamp
DirtyPacket(name, opcode) ==
    LET dirty == DirtyIndices(entities)
        items == Items(dirty, FALSE)
    IN  /\ UNCHANGED <<next_net_id, net_vars, pkt_vars, disp_vars, aux_vars>>
        /\ IF dirty = <<>>
           THEN /\ result' = [op |-> name, kind |-> "none"]
                /\ entities' = entities
           ELSE IF GetBytesRaises(entities, items)
           THEN /\ result' = [op |-> name, kind |-> "raise", exc |-> "AttributeError"]
                /\ entities' = entities
           ELSE /\ result' = [op |-> name, kind |-> "packet", opcode |-> opcode,
                              payload |-> get_bytes(entities, TRUE, items)]
                /\ entities' = ClearListed(AfterGetBytes(entities, items), dirty)

GetDirtyPacket == DirtyPacket("get_dirty_packet", 14)

GetDirtyPacketView == DirtyPacket("get_dirty_packet_view", 15)

\* get_snapshot_packet: add_entity(entity, force_spawn=True, forced_mask=...)
\* names a parameter add_entity does not have: TypeError on the first entity
GetSnapshotPacket ==
    /\ UNCHANGED <<next_net_id, entities, net_vars, pkt_vars, disp_vars, aux_vars>>
    /\ IF entities # <<>>
       THEN result' = [op |-> "get_snapshot_packet", kind |-> "raise",
                       exc |-> "TypeError"]
       ELSE result' = [op |-> "get_snapshot_packet", kind |-> "packet", opcode |-> 15,
                       payload |-> get_bytes(entities, TRUE, <<>>)]

\* build_update_packet(entities, ...): the callers hand it get_all(), the
\* dirty entities or an empty list, with or without local stats
BuildUpdatePacket ==
    \E idxs \in {AllIndices(entities), DirtyIndices(entities), <<>>},
       local_stats \in BOOLEAN :
        LET items == [k \in 1..Len(idxs) |->
                        [idx |-> idxs[k],
                         force_spawn |-> Has(entities[idxs[k]].pending_mask, DEFINITION)]]
        IN  /\ UNCHANGED <<next_net_id, net_vars, pkt_vars, disp_vars, aux_vars>>
            /\ IF idxs = <<>> /\ ~local_stats
               THEN /\ result' = [op |-> "build_update_packet", kind |-> "none"]
                    /\ entities' = entities
               ELSE IF GetBytesRaises(entities, items)
               THEN /\ result' = [op |-> "build_update_packet", kind |-> "raise",
                                  exc |-> "AttributeError"]
                    /\ entities' = entities
               ELSE /\ result' = [op |-> "build_update_packet", kind |-> "packet",
                                  opcode |-> 0, listed |-> idxs,
                                  payload |-> get_bytes(entities, local_stats, items)]
                    /\ entities' = AfterGetBytes(entities, items)

EntNext ==
    \/ CreateEntity
    \/ RemoveEntity
    \/ GetEntity
    \/ MarkDirty
    \/ ClearAllDirtyFlags
    \/ GetDirtyPacket
    \/ GetDirtyPacketView
    \/ GetSnapshotPacket
    \/ BuildUpdatePacket

-----------------------------------------------------------------------------
(* Properties of the entity manager *)

\* the (net id, pending mask) pairs of the table, in dict order
PendingMasks(ents) ==
    [i \in 1..Len(ents) |-> <<ents[i].net_id, ents[i].pending_mask>>]

SpawnMask == BitOr(BitOr(DEFINITION, HEALTH), POS)

HasAll(mask, bits) == BitAnd(mask, bits) = bits

\* C7: a call of get_dirty_packet with no dirty entity returns no packet and
\* changes nothing; otherwise it returns a packet whose records are exactly
\* the dirty entities, in order, each with the mask it had at the call, and
\* afterwards exactly those entities have a zero mask.
DirtyPacketIsExact ==
    [][result'.op = "get_dirty_packet" =>
         LET dirty == DirtyIndices(entities)
         IN  IF dirty = <<>>
             THEN result'.kind = "none" /\ entities' = entities
             ELSE /\ result'.kind = "packet"
                  /\ Len(result'.payload.recs) = Len(dirty)
                  /\ \A k \in 1..Len(dirty) :
                        /\ result'.payload.recs[k].net_id = entities[dirty[k]].net_id
                        /\ result'.payload.recs[k].mask = entities[dirty[k]].pending_mask
                  /\ entities' = ClearListed(entities, dirty)]_vars

\* C8: create_entity leaves the new entity with the mask
\* Definition|Health|Position; a get_dirty_packet that directly follows it
\* returns a packet with a record of that entity carrying those three bits;
\* a get_dirty_packet that directly follows a get_dirty_packet returns none.
CreateThenDirtyPacket ==
    [][/\ result'.op = "create_entity" =>
            entities'[IndexOf(entities', result'.net_id)].pending_mask = SpawnMask
       /\ (result.op = "create_entity" /\ result'.op = "get_dirty_packet") =>
            /\ result'.kind = "packet"
            /\ \E k \in 1..Len(result'.payload.recs) :
                  /\ result'.payload.recs[k].net_id = result.net_id
                  /\ HasAll(result'.payload.recs[k].mask, SpawnMask)
       /\ (result.op = "get_dirty_packet" /\ result.kind = "packet"
             /\ result'.op = "get_dirty_packet") =>
            result'.kind = "none"]_vars

\* C9: a call of get_snapshot_packet or of build_update_packet, whatever it
\* returns, leaves every entity's pending mask as it was, and so the list
\* get_dirty_entities returns, also for entities written with the
\* Definition bit forced.
SerializationKeepsMasks ==
    [][result'.op \in {"get_snapshot_packet", "build_update_packet"} =>
         /\ PendingMasks(entities') = PendingMasks(entities)
         /\ get_dirty_entities(entities') = get_dirty_entities(entities)]_vars

\* build_update_packet has just written an entity with force_spawn, and that
\* entity is still dirty with its Definition bit
ForcedSerializationDone ==
    /\ result.op = "build_update_packet"
    /\ result.kind = "packet"
    /\ \E k \in 1..Len(result.listed) :
          /\ Has(entities[result.listed[k]].pending_mask, DEFINITION)
          /\ Has(result.payload.recs[k].mask, DEFINITION)
    /\ get_dirty_entities(entities) # <<>>

\* C10: what get_snapshot_packet returned is a packet with one record for
\* every entity of the table, in order, and the mask of every record has
\* Definition, Position and Health.
SnapshotHoldsEveryEntity ==
    result.op = "get_snapshot_packet" =>
        /\ result.kind = "packet"
        /\ Len(result.payload.recs) = Len(entities)
        /\ \A i \in 1..Len(entities) :
              /\ result.payload.recs[i].net_id = entities[i].net_id
              /\ HasAll(result.payload.recs[i].mask, SpawnMask)

\* this step is a call of the entity manager that did something
EntStep == ent_vars' # ent_vars

\* C11: a create_entity call returns a net id that no entity of the table
\* has, adds one entity and leaves the entities that were there in place and
\* as they were; the net ids of the table are pairwise distinct.
CreateKeepsNetIdsUnique ==
    [][(EntStep /\ result'.op = "create_entity") =>
          /\ result'.net_id \notin NetIds(entities)
          /\ Len(entities') = Len(entities) + 1
          /\ SubSeq(entities', 1, Len(entities)) = entities
          /\ Cardinality(NetIds(entities')) = Len(entities')]_vars

FieldsKept(e, f) ==
    e.net_id = f.net_id /\ e.unit_type = f.unit_type /\ e.team_id = f.team_id

MaskOf(ents, id) == ents[IndexOf(ents, id)].pending_mask

\* the net ids get_dirty_entities returns
DirtyIds(ents) == NetIds(get_dirty_entities(ents))

\* the ten bits of UpdateMask
MaskBitValues == {Pow2(k) : k \in 0..(MaskBits - 1)}

\* whether the bit is set in the mask, by division
BitSet(mask, bit) == (mask \div bit) % 2 = 1

\* what marking e with m, giving f, must satisfy: f has exactly the bits of
\* e and of m and e's other fields, marking f with m again changes nothing,
\* and marking with another mask before or after m gives the same
MarkAlgebra(e, m, f) ==
    /\ FieldsKept(f, e)
    /\ \A bit \in MaskBitValues :
          BitSet(f.pending_mask, bit)
              <=> (BitSet(e.pending_mask, bit) \/ BitSet(m, bit))
    /\ mark_dirty(f, m) = f
    /\ \A b \in MarkMasks \ {m} : mark_dirty(mark_dirty(e, b), m) = mark_dirty(f, b)

\* C12: a mark_dirty step leaves its entity with exactly the bits it had and
\* the bits of the mask, and with its other fields; marking the same mask
\* again changes nothing and two marks commute; the step leaves the other
\* entities alone and makes its entity dirty; after clear_all_dirty_flags
\* get_dirty_entities is empty, and an entity with a zero mask gets into
\* get_dirty_entities only by a mark_dirty (create_entity marks the entity
\* it makes).
MarkDirtyIsBitwiseOr ==
    [][LET before == DirtyIds(entities)
           after  == DirtyIds(entities')
       IN  /\ result'.op = "clear_all_dirty_flags" => after = {}
           /\ (EntStep /\ result'.op = "mark_dirty") =>
                /\ Len(entities') = Len(entities)
                /\ \A i \in 1..Len(entities) :
                      IF entities[i].net_id = result'.net_id
                      THEN MarkAlgebra(entities[i], result'.mask, entities'[i])
                      ELSE entities'[i] = entities[i]
                /\ result'.net_id \in after
           /\ \A id \in after \ before :
                 id \in NetIds(entities) =>
                     (result'.op \in {"mark_dirty", "create_entity"} /\ result'.net_id = id)]_vars

\* an entity was cleared and then marked again with the position bit alone
MarkedAfterClear ==
    /\ result.op = "mark_dirty"
    /\ result.net_id \in NetIds(entities)
    /\ MaskOf(entities, result.net_id) = POS
    /\ result.net_id \in DirtyIds(entities)

\* the mask bit a written field belongs to
BlockBit(field) ==
    CASE field = "pos" -> POS
      [] field = "vel" -> VEL
      [] field = "rot" -> ROT
      [] field = "spin" -> SPIN
      [] field = "health" -> HEALTH
      [] field = "energy" -> ENERGY
      [] field = "owner" -> OWNER
      [] OTHER -> DEFINITION

\* the bits that have a block on the wire: WEAPON and HARD_SYNC have none
BitsWithBlock == MaskBitValues \ {WEAPON, HARD_SYNC}

\* the records of the packet the last call returned
ResultRecords ==
    IF result.kind = "packet" THEN result.payload.recs ELSE <<>>

\* C14: in every record of a packet the manager returned, the fields stand
\* in ascending order of their mask bits, and the bits that have fields in
\* the record are exactly the bits of the record's mask that carry a block,
\* however the mask came about.
BlocksInMaskOrder ==
    \A k \in 1..Len(ResultRecords) :
        LET rec == ResultRecords[k]
        IN  /\ \A i, j \in 1..Len(rec.blocks) :
                  i < j => BlockBit(rec.blocks[i]) <= BlockBit(rec.blocks[j])
            /\ {BlockBit(rec.blocks[i]) : i \in 1..Len(rec.blocks)}
                  = {bit \in BitsWithBlock : BitSet(rec.mask, bit)}

\* a delta record with position, health and energy, the bits marked after a
\* clear in either order
DeltaRecordWritten ==
    /\ result.op = "get_dirty_packet"
    /\ \E k \in 1..Len(ResultRecords) :
          /\ ResultRecords[k].mask = BitOr(POS, BitOr(HEALTH, ENERGY))
          /\ ResultRecords[k].blocks = <<"pos", "health", "energy">>

\* the table without the entity of that net id
Without(ents, id) == SelectSeq(ents, LAMBDA e : e.net_id # id)

\* C15: remove_entity of a live id returns the deletion notification with
\* that id and leaves the table as it was without that one entity;
\* remove_entity of an id that is not live returns none and changes nothing;
\* get_entity returns none exactly for an id that is not live and changes
\* nothing; neither raises.
RemoveAndLookup ==
    [][/\ (EntStep /\ result'.op = "remove_entity") =>
            IF result'.net_id \in NetIds(entities)
            THEN /\ result'.kind = "delete_packet"
                 /\ entities' = Without(entities, result'.net_id)
                 /\ Len(entities') = Len(entities) - 1
            ELSE /\ result'.kind = "none"
                 /\ entities' = entities
       /\ (EntStep /\ result'.op = "get_entity") =>
            /\ result'.kind = IF result'.net_id \in NetIds(entities) THEN "entity" ELSE "none"
            /\ entities' = entities]_vars

\* one of two entities was removed and the other is still in the table
RemovedOneOfTwo ==
    /\ result.op = "remove_entity"
    /\ result.kind = "delete_packet"
    /\ result.net_id \notin NetIds(entities)
    /\ entities # <<>>

-----------------------------------------------------------------------------
(* network/packets/update_array.py: one UpdateArrayPacket, filled with
   add_entity and then serialized with get_bytes *)

NoPacket == [stats |-> FALSE, count |-> -1, recs |-> <<>>]

\* the entity the packet is filled with: as create_entity leaves it
PacketEntity == NewEntity(1, 5, 1)

PktInit ==
    /\ pkt_items = <<>>
    /\ pkt_out = NoPacket

\* UpdateArrayPacket(...): a fresh packet object
NewPacket ==
    /\ pkt_items # <<>> \/ pkt_out # NoPacket
    /\ pkt_items' = <<>>
    /\ pkt_out' = NoPacket
    /\ UNCHANGED <<ent_vars, net_vars, disp_vars, aux_vars>>

\* packet.add_entity(entity, force_spawn=False)
AddEntity ==
    /\ pkt_out = NoPacket
    /\ Len(pkt_items) < MaxAdded
    /\ pkt_items' = Append(pkt_items, [idx |-> 1, force_spawn |-> FALSE])
    /\ UNCHANGED <<pkt_out, ent_vars, net_vars, disp_vars, aux_vars>>

\* packet.get_bytes(), with local stats set as the manager's callers do
GetBytes ==
    /\ pkt_out = NoPacket
    /\ pkt_out' = get_bytes(<<PacketEntity>>, TRUE, pkt_items)
    /\ UNCHANGED <<pkt_items, ent_vars, net_vars, disp_vars, aux_vars>>

PktNext ==
    \/ NewPacket
    \/ AddEntity
    \/ GetBytes

\* the largest number the count field holds
MaxCount == Pow2(CountBits) - 1

\* C13: in what get_bytes returns the count field is the number of records
\* behind it, and there are at most 255 records.
CountFieldIsRecordCount ==
    pkt_out # NoPacket =>
        /\ pkt_out.count = Len(pkt_out.recs)
        /\ Len(pkt_out.recs) <= MaxCount

-----------------------------------------------------------------------------
(* main.py: the packets of the TCP handshake *)

SESSION_KEY == "WulframSessionKey123"

Snd(op, arg) == [dir |-> "send", op |-> op, arg |-> arg]
Rcv(op) == [dir |-> "recv", op |-> op, arg |-> 0]

HelloUdpConfig == Snd(19, 1)      \* send_hello_udp: 0x13 sub 1
HelloSessionKey == Snd(19, 2)     \* send_hello_key: 0x13 sub 2
HelloVerified == Snd(19, 3)       \* send_hello_final: 0x13 sub 3
IdentifiedUdp == Snd(77, 0)       \* send_identified_udp: 0x4D
LoginStatus(code) == Snd(34, code)   \* send_login_status: 0x22
PlayerInfo == Snd(23, 0)          \* send_player_info: 0x17
TeamInfo == Snd(40, 0)            \* send_team_info: 0x28
GameClock == Snd(47, 0)           \* send_game_clock: 0x2F
Motd == Snd(35, 0)                \* send_motd: 0x23
Behavior == Snd(36, 0)            \* send_behavior_packet_old: 0x24
Translation == Snd(50, 0)         \* send_process_translation: 0x32
AddToRoster == Snd(26, 0)         \* send_add_to_roster: 0x1A
WorldStats == Snd(22, 0)          \* send_world_stats: 0x16
WaitReturned(signalled) == [dir |-> "wait", op |-> 0, arg |-> IF signalled THEN 1 ELSE 0]
StartPingLoop == [dir |-> "start_ping_loop", op |-> 0, arg |-> 0]

\* what the client may send on the TCP connection: op is body[0], sub is
\* body[1] (0 when the body has one byte), len the length of the body
TcpPackets ==
    {[op |-> 19, sub |-> b, len |-> 2] : b \in {1, 2, 9}}
    \cup {[op |-> 19, sub |-> 0, len |-> 6], [op |-> 19, sub |-> 0, len |-> 1]}
    \cup {[op |-> 33, sub |-> 0, len |-> 1], [op |-> 33, sub |-> 5, len |-> 12]}
    \cup {[op |-> 54, sub |-> 1, len |-> 2], [op |-> 78, sub |-> 0, len |-> 5]}

\* handle_hello_packet: whether the packet was handled as a Hello
HelloHandled(body) == body.len >= 2 /\ body.op = 19

\* a handle_hello_packet that answers every sub-command with the key, for
\* comparison
HelloRepliesEverySub(body) ==
    IF HelloHandled(body) THEN <<HelloSessionKey>> ELSE <<>>

\* handle_hello_packet: sub-command 2 is answered with send_hello_key
HelloReplies(body) ==
    IF HelloHandled(body) /\ body.sub = 2 THEN <<HelloSessionKey>> ELSE <<>>

\* a login loop that takes any packet that is not a Hello, for comparison
AnyReceived(body) == ~HelloHandled(body)

\* the login loops: a packet handle_hello_packet did not take advances the
\* stage iff its type is 0x21
LoginReceived(body) == ~HelloHandled(body) /\ body.op = 33

\* the keys those replies carry: send_hello_key writes SESSION_KEY
HelloKeys(body) == IF HelloReplies(body) # <<>> THEN {SESSION_KEY} ELSE {}

KeyRequests(log) == Cardinality({i \in 1..Len(log) : log[i] = HelloSessionKey})

-----------------------------------------------------------------------------
(* main.py: main(), one client at a time *)

NoAddr == "None"

\* the addresses datagrams come from
Addrs == {"A", "B"}

\* no ping thread, and one that start_ping_loop has just started
NoPingThread == [at |-> "none", late |-> 0]
PingThreadStarted == [at |-> "check", late |-> 0]

NetInit ==
    /\ pc = "accept"
    /\ session = 0
    /\ root_event = FALSE
    /\ udp_client_addr = NoAddr
    /\ tcp_log = <<>>
    /\ session_keys = {}
    /\ earlier_keys = {}
    /\ last_active = <<>>
    /\ stop_event = [s \in 1..MaxSessions |-> FALSE]
    /\ ping = [s \in 1..MaxSessions |-> "none"]
    /\ ping_loop = [s \in 1..MaxSessions |-> NoPingThread]
    /\ outgoingSequenceNumber = 0
    /\ last_udp = [addr |-> NoAddr, dgram |-> [op |-> -1], replies |-> <<>>]
    /\ acks_sent = [a \in Addrs |-> 0]

\* lines 1459-1472: accept, a fresh stop_ping_event, udp_root_received.clear()
Accept ==
    /\ pc = "accept"
    /\ session < MaxSessions
    /\ session' = session + 1
    /\ root_event' = FALSE
    /\ tcp_log' = <<>>
    /\ session_keys' = {}
    /\ earlier_keys' = earlier_keys \cup session_keys
    /\ last_active' = <<>>
    /\ pc' = "sleep"
    /\ UNCHANGED <<udp_client_addr, stop_event, ping, ping_loop, udp_vars, ent_vars, pkt_vars, disp_vars, aux_vars>>

\* line 1476, after the one second's sleep
SendHelloUdp ==
    /\ pc = "sleep"
    /\ tcp_log' = Append(tcp_log, HelloUdpConfig)
    /\ pc' = "wait_udp"
    /\ UNCHANGED <<session, root_event, udp_client_addr, session_keys, earlier_keys,
                   last_active, stop_event, ping, ping_loop, udp_vars, ent_vars, pkt_vars, disp_vars, aux_vars>>

\* a handshake that gives the client up at the timeout, for comparison
AfterWaitAborting(signalled) == IF signalled THEN "username_wait" ELSE "accept"

\* where the TCP thread goes when udp_root_received.wait(5.0) returns
AfterWait(signalled) == "username_wait"

\* lines 1483-1501: the wait returns True when the event is set and False at
\* its timeout; either way IDENTIFIED_UDP and Hello(verified) are sent
WaitUdp ==
    /\ pc = "wait_udp"
    /\ tcp_log' = tcp_log \o <<WaitReturned(root_event), IdentifiedUdp, HelloVerified>>
    /\ pc' = AfterWait(root_event)
    /\ UNCHANGED <<session, root_event, udp_client_addr, session_keys, earlier_keys, last_active,
                   stop_event, ping, ping_loop, udp_vars, ent_vars, pkt_vars, disp_vars, aux_vars>>

\* a login loop reads end of stream or an empty body: client.close(); continue
LoginClosed ==
    /\ pc \in {"username_wait", "password_wait"}
    /\ pc' = "accept"
    /\ UNCHANGED <<session, root_event, udp_client_addr, tcp_log, session_keys, earlier_keys,
                   last_active, stop_event, ping, ping_loop, udp_vars, ent_vars, pkt_vars, disp_vars, aux_vars>>

\* the order the comments of main() call "order that works": world stats
\* ahead of the team info, for comparison
PostLoginStatsFirst ==
    <<LoginStatus(8), Motd, WorldStats, TeamInfo, PlayerInfo, GameClock, Behavior,
      Translation, AddToRoster, StartPingLoop>>

\* lines 1582-1606: what follows the password, in the order of the calls
PostLogin ==
    <<TeamInfo, LoginStatus(8), PlayerInfo, GameClock, Motd, Behavior, Translation,
      AddToRoster, TeamInfo, WorldStats, StartPingLoop>>

\* lines 1505-1548: one packet read while waiting for the username
recv_username(body) ==
    /\ pc = "username_wait"
    /\ HelloReplies(body) # <<>> => KeyRequests(tcp_log) < MaxKeyReq
    /\ IF LoginReceived(body)
       THEN /\ tcp_log' = tcp_log \o <<Rcv(body.op), LoginStatus(1)>>
            /\ pc' = "password_wait"
            /\ UNCHANGED session_keys
       ELSE /\ tcp_log' = tcp_log \o HelloReplies(body)
            /\ session_keys' = session_keys \cup HelloKeys(body)
            /\ pc' = pc
    /\ UNCHANGED <<session, root_event, udp_client_addr, earlier_keys, last_active,
                   stop_event, ping, ping_loop, udp_vars, ent_vars, pkt_vars, disp_vars, tcp, bit_vars,
                   str_io, quant, ser, udp_loop, tick, upd, batch>>

RecvUsername == \E body \in TcpPackets : recv_username(body) /\ UNCHANGED login_in

\* lines 1553-1606: one packet read while waiting for the password; the
\* second 0x21 is followed by the post-login packets and start_ping_loop
recv_password(body) ==
    /\ pc = "password_wait"
    /\ HelloReplies(body) # <<>> => KeyRequests(tcp_log) < MaxKeyReq
    /\ IF LoginReceived(body)
       THEN /\ tcp_log' = tcp_log \o <<Rcv(body.op)>> \o PostLogin
            /\ pc' = "active"
            /\ ping' = [ping EXCEPT ![session] = "running"]
            /\ ping_loop' = [ping_loop EXCEPT ![session] = PingThreadStarted]
            /\ UNCHANGED session_keys
       ELSE /\ tcp_log' = tcp_log \o HelloReplies(body)
            /\ session_keys' = session_keys \cup HelloKeys(body)
            /\ pc' = pc
            /\ UNCHANGED <<ping, ping_loop>>
    /\ UNCHANGED <<session, root_event, udp_client_addr, earlier_keys, last_active,
                   stop_event, udp_vars, ent_vars, pkt_vars, disp_vars, tcp, bit_vars,
                   str_io, quant, ser, udp_loop, tick, upd, batch>>

RecvPassword == \E body \in TcpPackets : recv_password(body) /\ UNCHANGED login_in

\* lines 1628-1685: the replies of the listen loop to one packet
ActiveReplies(op) ==
    IF op = 78 THEN <<Snd(78, 0)>>
    ELSE IF op = 57 THEN <<Snd(31, 0), Snd(11, 0)>>
    ELSE IF op = 79 THEN <<Snd(14, 0), Snd(12, 0), Snd(31, 0), Snd(24, 0), Snd(17, 0)>>
    ELSE <<>>

ActiveRecv ==
    /\ pc = "active"
    /\ \E op \in {78, 57, 12} : last_active' = ActiveReplies(op)
    /\ UNCHANGED <<pc, session, root_event, udp_client_addr, tcp_log,
                   session_keys, earlier_keys, stop_event, ping, ping_loop, udp_vars, ent_vars, pkt_vars, disp_vars, aux_vars>>

\* lines 1692-1694: the listen loop ended: stop_ping_event.set(), close
ActiveClosed ==
    /\ pc = "active"
    /\ stop_event' = [stop_event EXCEPT ![session] = TRUE]
    /\ pc' = "accept"
    /\ UNCHANGED <<session, root_event, udp_client_addr, tcp_log, session_keys, earlier_keys,
                   last_active, ping, ping_loop, udp_vars, ent_vars, pkt_vars, disp_vars, aux_vars>>

\* start_ping_loop's thread: while not stop_event.is_set(): send a ping
\* request, then stop_event.wait(2.0)
PingStep ==
    \E s \in 1..MaxSessions :
        /\ ping[s] = "running"
        /\ ping' = [ping EXCEPT ![s] = IF stop_event[s] THEN "done" ELSE "running"]
        /\ UNCHANGED <<pc, session, root_event, udp_client_addr, tcp_log,
                       session_keys, earlier_keys, last_active, stop_event, ping_loop, udp_vars, ent_vars, pkt_vars, disp_vars, aux_vars>>

\* a ping thread whose loop is "while True": it never looks at the stop
\* event, for comparison
ping_thread_deaf(at, stopped) ==
    IF at = "check" THEN "send"
    ELSE IF at = "send" THEN "wait"
    ELSE "check"

\* start_ping_loop, lines 1321-1338: the statement the thread goes to from
\* the statement it is at. "check" is the loop condition
\* stop_event.is_set(), "send" is send_ping_request (send_packet keeps a
\* socket error to itself, lines 213-232), "wait" is stop_event.wait(2.0),
\* which returns at the timeout or when the event is set
ping_thread(at, stopped) ==
    IF at = "check" THEN (IF stopped THEN "done" ELSE "send")
    ELSE IF at = "send" THEN "wait"
    ELSE "check"

\* one statement of the ping thread of session s; late counts the requests
\* that left after the stop event was set
PingLoop(s) ==
    /\ ping_loop[s].at \in {"check", "send", "wait"}
    /\ ping_loop' = [ping_loop EXCEPT ![s] =
           [at |-> ping_thread(@.at, stop_event[s]),
            late |-> IF @.at = "send" /\ stop_event[s] THEN @.late + 1 ELSE @.late]]
    /\ UNCHANGED <<pc, session, root_event, udp_client_addr, tcp_log,
                   session_keys, earlier_keys, last_active, stop_event, ping,
                   udp_vars, ent_vars, pkt_vars, disp_vars, aux_vars>>

PingLoopStep == \E s \in 1..MaxSessions : PingLoop(s)

\* the accept loop with the ping threads statement by statement
PingNext ==
    \/ Accept
    \/ SendHelloUdp
    \/ WaitUdp
    \/ LoginClosed
    \/ RecvUsername
    \/ RecvPassword
    \/ ActiveRecv
    \/ ActiveClosed
    \/ PingLoopStep

\* C24: the ping thread of a session starts only in the step that completes
\* the login of that session, and with the loop condition; no thread exists
\* for a session that is still logging in, that ended before its login
\* completed or that was never accepted; a thread that finds the stop event
\* clear goes on to send, whatever arrived on the connection, and a packet
\* from the client (a pong among them) moves no thread; a thread terminates
\* only on its own session's stop event, after at most one request sent
\* behind it; and once the stop event of a session with a thread is set,
\* the thread terminates
PingLoopLifetime ==
    /\ [](\A s \in 1..MaxSessions :
            /\ (s > session \/ (s = session /\ pc # "active" /\ ~stop_event[s]))
                   => ping_loop[s] = NoPingThread
            /\ ping_loop[s].late <= 1
            /\ ping_loop[s].at = "done" => stop_event[s])
    /\ [][\A s \in 1..MaxSessions :
            /\ (ping_loop[s].at = "none" /\ ping_loop'[s].at # "none")
                   => /\ s = session /\ pc = "password_wait" /\ pc' = "active"
                      /\ ping_loop'[s] = PingThreadStarted
                      /\ tcp_log'[Len(tcp_log')] = StartPingLoop
            /\ (ping_loop[s].at = "check" /\ ~stop_event[s] /\ ping_loop'[s] # ping_loop[s])
                   => ping_loop'[s].at = "send"
            /\ (ping_loop[s].at = "send" /\ ping_loop'[s] # ping_loop[s])
                   => ping_loop'[s].at = "wait"
            /\ last_active' # last_active => ping_loop' = ping_loop
            /\ (\E t \in 1..MaxSessions \ {s} : stop_event'[t] # stop_event[t])
                   => ping_loop'[s] = ping_loop[s]
       ]_vars
    /\ \A s \in 1..MaxSessions :
           (stop_event[s] /\ ping_loop[s].at # "none") ~> (ping_loop[s].at = "done")

\* both sessions logged in; the thread of the first sent one request behind
\* its stop event and terminated while the thread of the second goes on
LateRequestThenDone ==
    /\ ping_loop[1] = [at |-> "done", late |-> 1]
    /\ ping_loop[2].at = "send"
    /\ ~stop_event[2]

-----------------------------------------------------------------------------
(* network/udp_handler.py: UDPHandler *)

Keys == {SESSION_KEY, "SomeOtherKey"}

\* the datagrams the UDP socket may receive, after the framing: op is the
\* opcode, blen the length of the body behind it, the rest what the handler
\* reads from the body
Datagrams ==
    {[op |-> 8], [op |-> 119]}
    \cup {[op |-> 19, key |-> k] : k \in Keys}
    \cup {[op |-> 32, blen |-> 13, seq |-> 7], [op |-> 51, blen |-> 8, seq |-> 7]}
    \cup {[op |-> 32, blen |-> 9, seq |-> 7], [op |-> 51, blen |-> 3, seq |-> 7],
          [op |-> 51, blen |-> 4, seq |-> 7], [op |-> 51, blen |-> 8, seq |-> 65535],
          [op |-> 37, blen |-> 8, seq |-> 7, is_team_switch |-> TRUE, team_id |-> 0]}
    \cup {[op |-> 37, blen |-> 5, seq |-> 7, is_team_switch |-> TRUE, team_id |-> 0],
          [op |-> 37, blen |-> 13, seq |-> 7, is_team_switch |-> TRUE, team_id |-> 1],
          [op |-> 37, blen |-> 21, seq |-> 7, is_team_switch |-> FALSE, team_id |-> 0]}

\* an ACK that carries the server's own sequence number in both places, for
\* comparison
StandardAckOwnSeq(out_seq, packet_id, sequence_num) ==
    [op |-> 2, out_seq |-> out_seq % 65536, len |-> 9, sub |-> 1,
     acked |-> packet_id, seq |-> out_seq % 65536]

\* send_standard_ack: the fields behind opcode 0x02
StandardAck(out_seq, packet_id, sequence_num) ==
    [op |-> 2, out_seq |-> out_seq % 65536, len |-> 9, sub |-> 1,
     acked |-> packet_id, seq |-> sequence_num % 65536]

Reply(op) == [op |-> op]

\* handle_comm_req, handle_reincarnate, handle_ack2: the length a body must
\* have for the handler to go on
MinBody(op) == IF op = 32 THEN 10 ELSE IF op = 37 THEN 8 ELSE 4

\* whether the handler of the datagram sends an ACK
Acked(d) == d.op \in {32, 37, 51} /\ d.blen >= MinBody(d.op)

\* whom the handler answers: the address the datagram came from
ReplyTo(addr) == addr

\* a handle_ack2 that parses the request and sends nothing, for comparison
RepliesAck2Silent(d, out_seq) ==
    IF ~Acked(d) \/ d.op = 51 THEN <<>>
    ELSE IF d.op = 32 THEN <<StandardAck(out_seq, 32, d.seq), Reply(31)>>
    ELSE (IF d.is_team_switch THEN <<>> ELSE <<Reply(37), Reply(24)>>)
         \o <<StandardAck(out_seq, 37, d.seq)>>
         \o (IF d.team_id \in {1, 2} THEN <<Reply(28)>> ELSE <<>>)
         \o <<Reply(37)>>

\* what the handler of the datagram sends, in order; out_seq is the outgoing
\* sequence number after its increment
Replies(d, out_seq) ==
    IF ~Acked(d) THEN <<>>
    ELSE IF d.op = 32 THEN <<StandardAck(out_seq, 32, d.seq), Reply(31)>>
    ELSE IF d.op = 51 THEN <<StandardAck(out_seq, 51, d.seq)>>
    ELSE (IF d.is_team_switch THEN <<>> ELSE <<Reply(37), Reply(24)>>)
         \o <<StandardAck(out_seq, 37, d.seq)>>
         \o (IF d.team_id \in {1, 2} THEN <<Reply(28)>> ELSE <<>>)
         \o <<Reply(37)>>

\* whether handling the datagram sets udp_root_received: handle_hello_ack
\* (0x08) does, when the event is not yet set; handle_session_key (0x13)
\* reads the key and prints it
SetsRootEvent(d) == d.op = 8

\* process_packet on one datagram d from addr: the handler of its opcode
\* runs to its end, what it sends goes to the socket
process_packet(addr, d) ==
    /\ outgoingSequenceNumber' =
           IF Acked(d) THEN outgoingSequenceNumber + 1 ELSE outgoingSequenceNumber
    /\ last_udp' = [addr |-> addr, dgram |-> d,
                    replies |-> [k \in 1..Len(Replies(d, outgoingSequenceNumber')) |->
                                    [to |-> ReplyTo(addr),
                                     pkt |-> Replies(d, outgoingSequenceNumber')[k]]]]
    /\ acks_sent' = IF Acked(d)
                    THEN [acks_sent EXCEPT ![ReplyTo(addr)] = @ + 1]
                    ELSE acks_sent
    /\ root_event' = (root_event \/ SetsRootEvent(d))
    /\ UNCHANGED <<udp_client_addr, tcp_vars, ent_vars, pkt_vars, disp_vars, aux_vars>>

\* the datagrams that arrive while the TCP threads run: the hello, the key
\* echo and a whole chat request
SessionDatagrams == {d \in Datagrams : d.op \in {8, 19} \/ (d.op = 32 /\ Acked(d))}

\* udp_server_loop beside the TCP threads: recvfrom, then process_packet
UdpRecv ==
    \E addr \in Addrs, d \in SessionDatagrams :
        /\ udp_loop.running
        /\ Acked(d) => outgoingSequenceNumber < MaxAcks
        /\ process_packet(addr, d)

\* udp_server_loop on its own: recvfrom, then process_packet
udp_server_loop ==
    \E addr \in Addrs, d \in Datagrams :
        /\ udp_loop.running
        /\ Acked(d) => outgoingSequenceNumber < MaxUdpAcks
        /\ process_packet(addr, d)

UdpNext == udp_server_loop

NetNext ==
    \/ Accept
    \/ SendHelloUdp
    \/ WaitUdp
    \/ LoginClosed
    \/ RecvUsername
    \/ RecvPassword
    \/ ActiveRecv
    \/ ActiveClosed
    \/ PingStep
    \/ UdpRecv

-----------------------------------------------------------------------------
(* Properties of the handshake *)

\* the steps of the handshake, in the order main() takes them; the wait is
\* listed by its timeout outcome and stands for either outcome
HandshakeSteps ==
    <<HelloUdpConfig, WaitReturned(FALSE), IdentifiedUdp, HelloVerified, Rcv(33),
      LoginStatus(1), Rcv(33), LoginStatus(8), PlayerInfo, StartPingLoop>>

IsStep(m) ==
    \/ m.dir \in {"wait", "recv", "start_ping_loop"}
    \/ m \in {HelloUdpConfig, IdentifiedUdp, HelloVerified, LoginStatus(1),
              LoginStatus(8), PlayerInfo}

SameStep(m, step) == IF step.dir = "wait" THEN m.dir = "wait" ELSE m = step

\* the handshake steps the current session has taken so far, in order
StepsTaken == SelectSeq(tcp_log, IsStep)

LoginsBefore(k) == Cardinality({i \in 1..(k - 1) : tcp_log[i] = Rcv(33)})

\* C1: the handshake steps a session has taken are always a prefix of
\* Hello(udp-config), wait, IDENTIFIED_UDP, Hello(verified), 0x21 received,
\* LoginStatus 1, 0x21 received, LoginStatus 8, player id, ping loop started:
\* none out of order, none skipped, none twice; and LoginStatus 8 and the
\* player id come only after two 0x21 packets were received.
HandshakeInOrder ==
    /\ Len(StepsTaken) <= Len(HandshakeSteps)
    /\ \A k \in 1..Len(StepsTaken) : SameStep(StepsTaken[k], HandshakeSteps[k])
    /\ \A k \in 1..Len(tcp_log) :
          tcp_log[k] \in {LoginStatus(8), PlayerInfo} => LoginsBefore(k) = 2

\* a session went through the whole handshake and is in the listen loop
HandshakeCompleted ==
    /\ pc = "active"
    /\ Len(StepsTaken) = Len(HandshakeSteps)
    /\ ping[session] = "running"

\* C2: a session that was accepted reaches the wait for the username, with
\* IDENTIFIED_UDP and Hello(verified) the last packets sent, whether the
\* wait for the UDP signal returned signalled or at its timeout.
TimeoutDoesNotAbort ==
    (pc \in {"sleep", "wait_udp"}) ~>
        (/\ pc = "username_wait"
         /\ Len(tcp_log) >= 2
         /\ SubSeq(tcp_log, Len(tcp_log) - 1, Len(tcp_log))
                = <<IdentifiedUdp, HelloVerified>>)

\* the wait timed out with no UDP signal and the session waits for the username
TimedOutAndWaiting ==
    /\ pc = "username_wait"
    /\ ~root_event
    /\ WaitReturned(FALSE) \in Range(tcp_log)
    /\ HelloVerified \in Range(tcp_log)

\* the datagram process_packet handled in this step, if it handled one
UdpHandled == last_udp' # last_udp \/ outgoingSequenceNumber' # outgoingSequenceNumber

\* the session in main() is past accept and has not been closed
SessionPending == pc # "accept"

\* the datagram echoes a key that was sent to the current session
EchoesSessionKey(u) == u.dgram.op = 19 /\ u.dgram.key \in session_keys

\* C3: udp_root_received goes from clear to set only in a step that handles
\* a 0x13 datagram whose key is a key sent to the pending session.
SignalOnlyOnKeyEcho ==
    [][(~root_event /\ root_event') =>
          (SessionPending /\ EchoesSessionKey(last_udp'))]_vars

\* C4: the first datagram that echoes the session's key binds its source
\* address as the session's UDP endpoint; a bound endpoint never changes,
\* whoever echoes the key later, and what the handler sends goes to it.
EndpointBoundOnce ==
    [][/\ (UdpHandled /\ SessionPending /\ EchoesSessionKey(last_udp')
             /\ udp_client_addr = NoAddr) => udp_client_addr' = last_udp'.addr
       /\ udp_client_addr # NoAddr =>
             /\ udp_client_addr' = udp_client_addr
             /\ \A k \in 1..Len(last_udp'.replies) :
                   last_udp'.replies[k].to = udp_client_addr]_vars

GameplayOps == {32, 37, 51}

\* C5: a 0x20, 0x25 or 0x33 datagram from an address that is not the bound
\* endpoint is answered with nothing and leaves the outgoing sequence number
\* as it was.
UnboundSourceIgnored ==
    [][(UdpHandled /\ last_udp'.dgram.op \in GameplayOps
          /\ last_udp'.addr # udp_client_addr) =>
             /\ last_udp'.replies = <<>>
             /\ outgoingSequenceNumber' = outgoingSequenceNumber]_vars

\* C6: no key sent in Hello(session-key) to the current session was sent to
\* a session before it.
SessionKeysDiffer == session_keys \cap earlier_keys = {}

\* the places of the log that hold the entry
Places(log, entry) == {i \in 1..Len(log) : log[i] = entry}

\* C23: wherever the world stats (0x16) stand in the traffic of a session,
\* a team info (0x28) and the add-to-roster (0x1A) stand before them; the
\* ping loop is started behind the world stats, and a session whose ping
\* thread exists has been sent them.
RosterBeforeWorldStats ==
    /\ \A w \in Places(tcp_log, WorldStats) :
          /\ \E i \in Places(tcp_log, TeamInfo) : i < w
          /\ \E i \in Places(tcp_log, AddToRoster) : i < w
    /\ \A p \in Places(tcp_log, StartPingLoop) :
          \E w \in Places(tcp_log, WorldStats) : w < p
    /\ (session >= 1 /\ ping[session] # "none") => Places(tcp_log, WorldStats) # {}

\* a session was sent its world stats and its ping thread runs
WorldStatsSent ==
    /\ Places(tcp_log, WorldStats) # {}
    /\ session >= 1
    /\ ping[session] = "running"

-----------------------------------------------------------------------------
(* network/udp_handler.py: the standard ACK *)

\* PacketWriter.write_int16: value & 0xFFFF, high byte first
Int16(v) == <<(v % 65536) \div 256, v % 256>>

\* _pack(0x02, payload) of send_standard_ack: the datagram as bytes
AckBytes(ack) ==
    <<ack.op>> \o Int16(ack.out_seq) \o Int16(ack.len)
        \o <<ack.sub % 256, ack.acked % 256>> \o Int16(ack.seq)

\* the positions of the standard ACKs among the packets sent
AckIndices(replies) == {k \in 1..Len(replies) : replies[k].pkt.op = 2}

\* the bytes the handler of the request reads from its body: sequence and
\* length, then status (0x33), flag and two ints and for a spawn two more
\* (0x25), source, id and the length of the string (0x20)
FieldsRead(d) ==
    IF d.op = 51 THEN 8
    ELSE IF d.op = 37 THEN (IF d.is_team_switch THEN 13 ELSE 21)
    ELSE 10

WellFormed(d) == d.op \in GameplayOps /\ d.blen >= FieldsRead(d)
TooShort(d) == d.op \in GameplayOps /\ d.blen < FieldsRead(d)

RECURSIVE SumAcks(_, _)
SumAcks(sent, S) ==
    IF S = {} THEN 0
    ELSE LET a == CHOOSE x \in S : TRUE IN sent[a] + SumAcks(sent, S \ {a})

\* C16: the k-th ACK sent to an address carries the sequence number
\* k modulo 2^16, whatever was sent to other addresses in between.
AckSequencePerEndpoint ==
    \A k \in AckIndices(last_udp.replies) :
        last_udp.replies[k].pkt.out_seq = acks_sent[last_udp.replies[k].to] % 65536

OneAckPerRequest ==
    [][IF UdpHandled
       THEN LET d == last_udp'.dgram
                acks == AckIndices(last_udp'.replies)
            IN  /\ Cardinality(acks) <= 1
                /\ SumAcks(acks_sent', Addrs) = SumAcks(acks_sent, Addrs) + Cardinality(acks)
                /\ outgoingSequenceNumber' = outgoingSequenceNumber + Cardinality(acks)
                /\ acks # {} => d.op \in GameplayOps
                /\ WellFormed(d) =>
                      /\ Cardinality(acks) = 1
                      /\ \A k \in acks : last_udp'.replies[k].to = last_udp'.addr
                      /\ acks_sent'[last_udp'.addr] = acks_sent[last_udp'.addr] + 1
       ELSE acks_sent' = acks_sent]_vars

\* the same address was sent a second ACK, for a chat request
SecondAckToSameAddress ==
    /\ last_udp.dgram.op = 32
    /\ AckIndices(last_udp.replies) # {}
    /\ acks_sent[last_udp.addr] = 2
    /\ outgoingSequenceNumber = 2

\* C19: handling a request that is shorter than the fields its handler reads
\* sends nothing and leaves the outgoing sequence number as it was.
ShortRequestDropped ==
    [][(UdpHandled /\ TooShort(last_udp'.dgram)) =>
          /\ last_udp'.replies = <<>>
          /\ outgoingSequenceNumber' = outgoingSequenceNumber
          /\ acks_sent' = acks_sent]_vars

-----------------------------------------------------------------------------
(* network/dispatcher.py and UDPHandler.process_packet: opcode dispatch *)

\* the keys of UDPHandler.packet_map
UdpOpcodes == {0, 2, 3, 8, 9, 10, 19, 32, 37, 51, 64}

\* the opcodes route() is called with
RouteOpcodes == {33}

\* the bytes payloads are made of: 0x00, 0x03 and 0x08 have a handler on UDP
\* only, 0x21 on TCP only, once it is routed
PayloadBytes == {0, 3, 8, 33}

Payloads == UNION {[1..n -> PayloadBytes] : n \in 0..MaxPayload}

NoDispatch == [transport |-> "none", data |-> <<>>, payload |-> <<>>, invoked |-> <<>>]

DispInit ==
    /\ handlers = {}
    /\ on_unknown = FALSE
    /\ packet_map = UdpOpcodes
    /\ dispatched = NoDispatch

\* one call of a handler or of a default
Called(transport, kind, op) == [transport |-> transport, kind |-> kind, op |-> op]

\* PacketDispatcher.dispatch_payload: what it calls for the payload
dispatch_payload(table, unknown, payload) ==
    IF payload = <<>> THEN <<>>
    ELSE IF payload[1] \in table THEN <<Called("tcp", "handler", payload[1])>>
    ELSE IF unknown THEN <<Called("tcp", "on_unknown", payload[1])>>
    ELSE <<Called("tcp", "log", payload[1])>>

\* an _unpack_payload that takes any two bytes that could be a length of the
\* datagram or of a part of it for a header, for comparison
unpack_payload_lenient(data) ==
    IF Len(data) >= 3 /\ data[1] * 256 + data[2] <= Len(data)
    THEN SubSeq(data, 3, Len(data))
    ELSE data

\* _unpack_payload: the two bytes of length are stripped when they are the
\* length of the datagram
unpack_payload(data) ==
    IF Len(data) >= 3 /\ data[1] * 256 + data[2] = Len(data)
    THEN SubSeq(data, 3, Len(data))
    ELSE data

\* a process_packet loop that ends behind the first packet, for comparison
BatchFirstOnly(table, payload, cursor) ==
    IF cursor >= Len(payload) THEN <<>>
    ELSE IF payload[cursor + 1] = 0
              /\ (Len(payload) - cursor < 2
                  \/ cursor + 2 + payload[cursor + 2] > Len(payload)) THEN <<>>
    ELSE IF payload[cursor + 1] \in table
         THEN <<Called("udp", "handler", payload[cursor + 1])>>
         ELSE <<Called("udp", "_handle_unknown", payload[cursor + 1])>>

\* the loop of process_packet from cursor on: what it calls, in order. A
\* 0x00 packet is opcode, length byte and string, and the loop goes on
\* behind it; it ends the loop when it is cut short. Any other packet takes
\* the rest of the payload.
RECURSIVE Batch(_, _, _)
Batch(table, payload, cursor) ==
    IF cursor >= Len(payload) THEN <<>>
    ELSE LET pkt_type == payload[cursor + 1]
             call == IF pkt_type \in table
                     THEN Called("udp", "handler", pkt_type)
                     ELSE Called("udp", "_handle_unknown", pkt_type)
         IN  IF pkt_type = 0
             THEN IF Len(payload) - cursor >= 2
                  THEN LET total_packet_size == 2 + payload[cursor + 2]
                       IN  IF cursor + total_packet_size <= Len(payload)
                           THEN <<call>> \o Batch(table, payload, cursor + total_packet_size)
                           ELSE <<>>
                  ELSE <<>>
             ELSE <<call>>

\* PacketDispatcher(on_unknown=...): a new dispatcher, no handler yet
NewDispatcher ==
    \E unknown \in BOOLEAN :
        /\ handlers' = {}
        /\ on_unknown' = unknown
        /\ UNCHANGED <<packet_map, dispatched, ent_vars, net_vars, pkt_vars, aux_vars>>

\* @dispatcher.route(opcode)
Route ==
    \E opcode \in RouteOpcodes :
        /\ handlers' = handlers \cup {opcode}
        /\ UNCHANGED <<on_unknown, packet_map, dispatched, ent_vars, net_vars, pkt_vars, aux_vars>>

\* dispatcher.dispatch_payload(ctx, payload) on a payload of the TCP stream
DispatchPayload ==
    \E payload \in Payloads :
        /\ dispatched' = [transport |-> "tcp", data |-> payload, payload |-> payload,
                          invoked |-> dispatch_payload(handlers, on_unknown, payload)]
        /\ UNCHANGED <<handlers, on_unknown, packet_map, ent_vars, net_vars, pkt_vars, aux_vars>>

\* whether handle_hello_ack is among the calls
CallsHelloAck(invoked) ==
    \E k \in 1..Len(invoked) : invoked[k].kind = "handler" /\ invoked[k].op = 8

\* process_packet(data, addr) on the bytes of a datagram; of the handlers
\* these bytes reach, handle_hello_ack changes state
ProcessBatch ==
    \E data \in Payloads :
        LET payload == unpack_payload(data)
            invoked == Batch(packet_map, payload, 0)
        IN  /\ dispatched' = [transport |-> "udp", data |-> data, payload |-> payload,
                              invoked |-> invoked]
            /\ root_event' = (root_event \/ CallsHelloAck(invoked))
            /\ UNCHANGED <<handlers, on_unknown, packet_map, udp_client_addr, tcp_vars,
                           udp_vars, ent_vars, pkt_vars, aux_vars>>

DispNext ==
    \/ NewDispatcher
    \/ Route
    \/ DispatchPayload
    \/ ProcessBatch

\* the handler table of a transport
TableOf(transport) == IF transport = "tcp" THEN handlers ELSE packet_map

\* what a transport does with an opcode that has no handler
DefaultOf(transport) ==
    IF transport = "udp" THEN "_handle_unknown"
    ELSE IF on_unknown THEN "on_unknown" ELSE "log"

\* the call is the one the transport's table gives for the opcode
CallFor(call, transport, op) ==
    /\ call.transport = transport
    /\ call.op = op
    /\ call.kind = IF op \in TableOf(transport) THEN "handler" ELSE DefaultOf(transport)

\* a 0x00 packet at the head of the payload that lacks its length byte or
\* part of its string
HeadCutShort(p) == p[1] = 0 /\ (Len(p) < 2 \/ 2 + p[2] > Len(p))

\* C20 as stated: a non-empty payload invokes exactly one handler, the one
\* its transport's table has for the first byte or that transport's
\* default; an empty payload invokes none; no dispatch changes a table.
DispatchInvokesOneHandler ==
    [][dispatched' # dispatched =>
         LET p == dispatched'.payload
             inv == dispatched'.invoked
         IN  /\ handlers' = handlers /\ packet_map' = packet_map
             /\ IF p = <<>> THEN inv = <<>>
                ELSE Len(inv) = 1 /\ CallFor(inv[1], dispatched'.transport, p[1])]_vars

\* C20, amended: as stated for TCP payloads and for UDP payloads whose first
\* byte is not 0x00. A UDP payload that begins with 0x00 is a batch: a 0x00
\* packet cut short invokes nothing; a whole one invokes the 0x00 handler
\* and the bytes behind it are dispatched next, a packet of another opcode
\* ending the batch. Every call is by the table of the payload's transport.
DispatchPerTransport ==
    [][dispatched' # dispatched =>
         LET p == dispatched'.payload
             inv == dispatched'.invoked
             t == dispatched'.transport
         IN  /\ handlers' = handlers /\ packet_map' = packet_map /\ on_unknown' = on_unknown
             /\ \A k \in 1..Len(inv) : \E i \in 1..Len(p) : CallFor(inv[k], t, p[i])
             /\ IF p = <<>> THEN inv = <<>>
                ELSE IF t = "tcp" \/ p[1] # 0
                THEN Len(inv) = 1 /\ CallFor(inv[1], t, p[1])
                ELSE IF HeadCutShort(p) THEN inv = <<>>
                ELSE /\ inv # <<>>
                     /\ CallFor(inv[1], t, 0)
                     /\ \A k \in 1..(Len(inv) - 1) : inv[k].op = 0
                     /\ LET next == 2 + p[2] + 1
                        IN  IF next > Len(p) THEN Len(inv) = 1
                            ELSE IF p[next] # 0
                            THEN Len(inv) = 2 /\ CallFor(inv[2], t, p[next])
                            ELSE Len(inv) <= 1 + ((Len(p) - next + 1) \div 2)]_vars

\* a datagram of an empty 0x00 packet and a 0x08 packet behind it was
\* dispatched to both handlers
BatchDispatched ==
    /\ dispatched.transport = "udp"
    /\ dispatched.payload = <<0, 0, 8>>
    /\ Len(dispatched.invoked) = 2
    /\ root_event

\* C22: what is dispatched of a UDP datagram is the datagram without its
\* first two bytes when it has at least 3 bytes and the two bytes are its
\* length as a big-endian number, and the whole datagram otherwise; the
\* first byte of what is dispatched is taken for the opcode.
LengthHeaderStripped ==
    dispatched.transport = "udp" =>
        LET d == dispatched.data
            p == dispatched.payload
            framed == Len(d) >= 3 /\ (d[1] = Len(d) \div 256) /\ (d[2] = Len(d) % 256)
        IN  /\ Len(p) = IF framed THEN Len(d) - 2 ELSE Len(d)
            /\ \A i \in 1..Len(p) : p[i] = d[i + Len(d) - Len(p)]
            /\ dispatched.invoked # <<>> => dispatched.invoked[1].op = p[1]

\* a datagram of three bytes that begins with 00 03 was dispatched as its
\* third byte
FramedDatagramDispatched ==
    /\ dispatched.transport = "udp"
    /\ dispatched.data = <<0, 3, 8>>
    /\ dispatched.payload = <<8>>
    /\ dispatched.invoked = <<Called("udp", "handler", 8)>>

-----------------------------------------------------------------------------
(* network/transport and main.py: TCP framing *)

\* the payloads a client frames and sends
TcpPayloads == {<<12>>, <<33, 7>>}

\* TcpEnvelope.encode: the length, header included, in two bytes, then the
\* payload
encode(payload) == Int16(Len(payload) + 2) \o payload

\* TcpEnvelope.decode_header, struct.unpack(">H", hdr)
decode_header(hdr2) == hdr2[1] * 256 + hdr2[2]

\* a connection just accepted, read by main()'s listen loop ("main") or by
\* TcpTransport.recv_payload ("transport")
Accepted(receiver) ==
    [rcv |-> receiver, wire |-> <<>>, avail |-> <<>>, closed |-> FALSE, sent |-> <<>>,
     phase |-> "hdr", buf |-> <<>>, need |-> 2, got |-> <<>>, ended |-> FALSE]

TcpInit == tcp = Accepted("main")

TcpAccept ==
    \E receiver \in {"main", "transport"} :
        /\ tcp # Accepted(receiver)
        /\ tcp' = Accepted(receiver)
        /\ UNCHANGED <<ent_vars, net_vars, pkt_vars, disp_vars, bit_vars, str_io, quant, ser, udp_loop, tick, login_in, upd, batch>>

\* the client sends one framed payload
TcpSend ==
    \E payload \in TcpPayloads :
        /\ ~tcp.closed
        /\ Len(tcp.sent) < MaxFrames
        /\ tcp' = [tcp EXCEPT !.wire = @ \o encode(payload), !.sent = Append(@, payload)]
        /\ UNCHANGED <<ent_vars, net_vars, pkt_vars, disp_vars, bit_vars, str_io, quant, ser, udp_loop, tick, login_in, upd, batch>>

\* some of the bytes under way reach the server's socket buffer
TcpArrive ==
    \E k \in 1..Len(tcp.wire) :
        /\ tcp' = [tcp EXCEPT !.avail = @ \o SubSeq(tcp.wire, 1, k),
                              !.wire = SubSeq(@, k + 1, Len(@))]
        /\ UNCHANGED <<ent_vars, net_vars, pkt_vars, disp_vars, bit_vars, str_io, quant, ser, udp_loop, tick, login_in, upd, batch>>

\* the client closes the connection
TcpClose ==
    /\ ~tcp.closed
    /\ tcp' = [tcp EXCEPT !.closed = TRUE]
    /\ UNCHANGED <<ent_vars, net_vars, pkt_vars, disp_vars, bit_vars, str_io, quant, ser, udp_loop, tick, login_in, upd, batch>>

\* one sock.recv(n) of the receive loop and what the loop makes of it.
\* recv returns what the buffer has, n bytes at most, and b"" when the peer
\* has closed. recv_exact goes on until it has n bytes and returns None on
\* b""; main()'s listen loop reads its header with a single client.recv(2),
\* struct.unpack raises on one byte and the loop breaks on the exception; it
\* breaks on an empty body as well.
SockRecv(header_by_recv_exact) ==
    LET n == tcp.need - Len(tcp.buf)
        chunk == SubSeq(tcp.avail, 1, IF Len(tcp.avail) < n THEN Len(tcp.avail) ELSE n)
        buf == tcp.buf \o chunk
        rest == [tcp EXCEPT !.avail = SubSeq(@, Len(chunk) + 1, Len(@))]
        ends == [rest EXCEPT !.ended = TRUE]
    IN  /\ ~tcp.ended
        /\ tcp.avail # <<>> \/ (tcp.closed /\ tcp.wire = <<>>)
        /\ tcp' =
              IF chunk = <<>> THEN ends
              ELSE IF Len(buf) < tcp.need
              THEN IF tcp.phase = "hdr" /\ ~header_by_recv_exact
                   THEN ends
                   ELSE [rest EXCEPT !.buf = buf]
              ELSE IF tcp.phase = "body"
              THEN [rest EXCEPT !.got = Append(@, buf), !.phase = "hdr", !.buf = <<>>,
                                !.need = 2]
              ELSE IF decode_header(buf) - 2 <= 0
              THEN IF header_by_recv_exact
                   THEN [rest EXCEPT !.got = Append(@, <<>>), !.buf = <<>>]
                   ELSE ends
              ELSE [rest EXCEPT !.phase = "body", !.buf = <<>>,
                                !.need = decode_header(buf) - 2]
        /\ UNCHANGED <<ent_vars, net_vars, pkt_vars, disp_vars, bit_vars, str_io, quant, ser, udp_loop, tick, login_in, upd, batch>>

\* TcpTransport.recv_payload: recv_exact(sock, 2), then recv_exact of the body
recv_payload == tcp.rcv = "transport" /\ SockRecv(TRUE)

\* main(), the listen loop: client.recv(2), then recv_exact of the body
ListenLoop == tcp.rcv = "main" /\ SockRecv(FALSE)

TcpNext ==
    \/ TcpAccept
    \/ TcpSend
    \/ TcpArrive
    \/ TcpClose
    \/ recv_payload
    \/ ListenLoop

IsPrefix(s, t) == Len(s) <= Len(t) /\ s = SubSeq(t, 1, Len(s))

\* C21: the receiver returns the payloads that were framed and sent, in
\* order, however the bytes arrive; it reports the end of the session only
\* when the stream is closed, and then every payload sent has been returned.
FramedPayloadsDelivered ==
    /\ IsPrefix(tcp.got, tcp.sent)
    /\ tcp.ended => (tcp.closed /\ tcp.got = tcp.sent)

-----------------------------------------------------------------------------
(* network/streams.py: PacketWriter and PacketReader, bit by bit *)

\* a writer whose bytes are filled from the low bit upwards, for comparison
RECURSIVE write_bits_lsb(_, _, _)
write_bits_lsb(w, value, num_bits) ==
    IF num_bits <= 0 THEN w
    ELSE LET bit == (value \div 2^(num_bits - 1)) % 2
             byte == w.current_byte + bit * 2^(w.bit_index)
         IN  write_bits_lsb(IF w.bit_index + 1 = 8
                            THEN [buffer |-> Append(w.buffer, byte),
                                  current_byte |-> 0, bit_index |-> 0]
                            ELSE [w EXCEPT !.current_byte = byte, !.bit_index = @ + 1],
                            value, num_bits - 1)

\* write_bits, lines 38-55: the loop over i = num_bits - 1 down to 0; each
\* turn ORs bit i of value into the current byte at 7 - _bit_index and
\* appends the byte to the buffer when it is full
RECURSIVE write_bits(_, _, _)
write_bits(w, value, num_bits) ==
    IF num_bits <= 0 THEN w
    ELSE LET bit == (value \div 2^(num_bits - 1)) % 2
             place == 2^(7 - w.bit_index)
             byte == IF (w.current_byte \div place) % 2 = 1 THEN w.current_byte
                     ELSE w.current_byte + bit * place
         IN  write_bits(IF w.bit_index + 1 = 8
                        THEN [buffer |-> Append(w.buffer, byte),
                              current_byte |-> 0, bit_index |-> 0]
                        ELSE [w EXCEPT !.current_byte = byte, !.bit_index = @ + 1],
                        value, num_bits - 1)

\* _flush_bits, lines 14-19
flush_bits(w) ==
    IF w.bit_index > 0
    THEN [buffer |-> Append(w.buffer, w.current_byte), current_byte |-> 0, bit_index |-> 0]
    ELSE w

\* an align that closes a byte even when none is open, for comparison
align_always(w) ==
    [buffer |-> Append(w.buffer, w.current_byte), current_byte |-> 0, bit_index |-> 0]

\* align, lines 57-62
align(w) ==
    IF w.bit_index > 0
    THEN [buffer |-> Append(w.buffer, w.current_byte), current_byte |-> 0, bit_index |-> 0]
    ELSE w

\* PacketReader.__init__, lines 141-145
PacketReader(data) ==
    [data |-> data, total_bytes |-> Len(data), byte_pos |-> 0, bit_pos |-> 0]

\* a read_bits that returns the bits it got when the data runs out, for
\* comparison
RECURSIVE read_bits_partial(_, _, _)
read_bits_partial(r, value, num_bits) ==
    IF num_bits <= 0 THEN [value |-> value, reader |-> r]
    ELSE IF r.byte_pos >= r.total_bytes THEN [value |-> value, reader |-> r]
    ELSE LET bit == (r.data[r.byte_pos + 1] \div 2^(7 - r.bit_pos)) % 2
         IN  read_bits_partial(IF r.bit_pos + 1 = 8
                               THEN [r EXCEPT !.bit_pos = 0, !.byte_pos = @ + 1]
                               ELSE [r EXCEPT !.bit_pos = @ + 1],
                               value * 2 + bit, num_bits - 1)

\* read_bits, lines 154-175: the loop with num_bits turns left and value
\* the bits read so far (0 at the call); the result is the value returned
\* and the reader as the call leaves it
RECURSIVE read_bits(_, _, _)
read_bits(r, value, num_bits) ==
    IF num_bits <= 0 THEN [value |-> value, reader |-> r]
    ELSE IF r.byte_pos >= r.total_bytes THEN [value |-> 0, reader |-> r]
    ELSE LET bit == (r.data[r.byte_pos + 1] \div 2^(7 - r.bit_pos)) % 2
         IN  read_bits(IF r.bit_pos + 1 = 8
                       THEN [r EXCEPT !.bit_pos = 0, !.byte_pos = @ + 1]
                       ELSE [r EXCEPT !.bit_pos = @ + 1],
                       value * 2 + bit, num_bits - 1)

\* PacketWriter.__init__, lines 9-12; no reader yet
BitsInit ==
    /\ writer = [buffer |-> <<>>, current_byte |-> 0, bit_index |-> 0]
    /\ written = <<>>
    /\ reader = PacketReader(<<>>)
    /\ reads = <<>>
    /\ bit_pc = "writing"

\* the widths of the fields: within a byte, up to a byte boundary and
\* across one
Widths == {1, 7, 10}

\* one call of write_bits with a value that fits the width
WriteField ==
    /\ bit_pc = "writing"
    /\ Len(written) < MaxFields
    /\ \E n \in Widths : \E value \in {1, 2^n - 2} :
        /\ writer' = write_bits(writer, value, n)
        /\ written' = Append(written, [align |-> FALSE, value |-> value, n |-> n])
    /\ UNCHANGED <<reader, reads, bit_pc, ent_vars, net_vars, pkt_vars, disp_vars, tcp, str_io, quant, ser, udp_loop, tick, login_in, upd, batch>>

\* one call of align
AlignStream ==
    /\ bit_pc = "writing"
    /\ Len(written) < MaxFields
    /\ writer' = align(writer)
    /\ written' = Append(written, [align |-> TRUE, value |-> 0, n |-> 0])
    /\ UNCHANGED <<reader, reads, bit_pc, ent_vars, net_vars, pkt_vars, disp_vars, tcp, str_io, quant, ser, udp_loop, tick, login_in, upd, batch>>

\* get_bytes, lines 21-24, and a PacketReader on the bytes it returned
WriterGetBytes ==
    /\ bit_pc = "writing"
    /\ writer' = flush_bits(writer)
    /\ reader' = PacketReader(writer'.buffer)
    /\ bit_pc' = "reading"
    /\ UNCHANGED <<written, reads, ent_vars, net_vars, pkt_vars, disp_vars, tcp, str_io, quant, ser, udp_loop, tick, login_in, upd, batch>>

\* one call of read_bits; the cursor before and after it is noted in bits
ReadField ==
    /\ bit_pc = "reading"
    /\ Len(reads) < MaxFields
    /\ \E n \in Widths :
        LET got == read_bits(reader, 0, n)
        IN  /\ reader' = got.reader
            /\ reads' = Append(reads, [n |-> n, value |-> got.value,
                                       before |-> 8 * reader.byte_pos + reader.bit_pos,
                                       after |-> 8 * got.reader.byte_pos + got.reader.bit_pos])
    /\ UNCHANGED <<writer, written, bit_pc, ent_vars, net_vars, pkt_vars, disp_vars, tcp, str_io, quant, ser, udp_loop, tick, login_in, upd, batch>>

BitsNext ==
    \/ WriteField
    \/ AlignStream
    \/ WriterGetBytes
    \/ ReadField

\* C25: fields written one after the other with write_bits and read with
\* read_bits of the same widths come back unchanged; in the bytes of
\* get_bytes bit b of field k sits at the sum of the widths before it plus
\* b, counted from the high bit of the first byte, and the bytes end with
\* the byte of the last bit
BitsRoundTrip ==
    /\ \A k \in 1..Len(reads) :
           (/\ k <= Len(written)
            /\ \A j \in 1..k : ~written[j].align /\ written[j].n = reads[j].n)
               => reads[k].value = written[k].value
    /\ (bit_pc = "reading" /\ \A j \in 1..Len(written) : ~written[j].align)
           => LET off[k \in 0..Len(written)] ==
                      IF k = 0 THEN 0 ELSE off[k - 1] + written[k].n
              IN  /\ Len(reader.data) = (off[Len(written)] + 7) \div 8
                  /\ \A k \in 1..Len(written) : \A b \in 0..(written[k].n - 1) :
                         LET i == off[k - 1] + b
                         IN  (reader.data[(i \div 8) + 1] \div 2^(7 - (i % 8))) % 2
                                 = (written[k].value \div 2^(written[k].n - 1 - b)) % 2

\* a bit, ten bits across the first byte boundary and seven more, read back
\* with the same widths
MixedWidthsReadBack ==
    /\ Len(written) = 3 /\ Len(reads) = 3
    /\ \A j \in 1..3 : ~written[j].align /\ written[j].n = reads[j].n
    /\ written[1].n = 1 /\ written[2] = [align |-> FALSE, value |-> 1022, n |-> 10]
    /\ written[3].n = 7

\* C26: the writer's bit offset stays in 0..7 and its position, eight times
\* the completed bytes plus the offset, is the sum of the widths written,
\* each align rounding it up to a whole byte; an align step leaves the
\* offset at 0, closes the open byte as it is, its low bits being 0, and
\* changes nothing when no byte is open; get_bytes returns the whole bytes
\* of the position rounded up, with the unused low bits of the last at 0
WriterBitCount ==
    /\ [](LET tot[k \in 0..Len(written)] ==
                  IF k = 0 THEN 0
                  ELSE IF written[k].align THEN ((tot[k - 1] + 7) \div 8) * 8
                  ELSE tot[k - 1] + written[k].n
              total == tot[Len(written)]
          IN  /\ writer.bit_index \in 0..7
              /\ bit_pc = "writing"
                     => 8 * Len(writer.buffer) + writer.bit_index = total
              /\ (Len(written) > 0 /\ written[Len(written)].align /\ bit_pc = "writing")
                     => writer.bit_index = 0
              /\ bit_pc = "reading"
                     => /\ Len(reader.data) = (total + 7) \div 8
                        /\ total % 8 # 0
                               => reader.data[Len(reader.data)] % 2^(8 - (total % 8)) = 0)
    /\ [][(bit_pc' = "writing" /\ Len(written') > Len(written)
               /\ written'[Len(written')].align)
             => /\ writer.bit_index = 0 => writer' = writer
                /\ writer.bit_index > 0
                       => /\ writer'.buffer = Append(writer.buffer, writer.current_byte)
                          /\ writer.current_byte % 2^(8 - writer.bit_index) = 0
         ]_vars

\* an align on an aligned stream that holds a byte, an align on an open
\* byte, then get_bytes
AlignedTwiceThenBytes ==
    /\ Len(written) = 3
    /\ ~written[1].align /\ written[1].n = 1
    /\ written[2].align /\ written[3].align
    /\ bit_pc = "reading"

\* C27: a read_bits call that finds its bits returns them and leaves the
\* cursor that many bits on; a call that finds fewer returns 0; and after
\* such a call every call returns 0
ReadPastEndReturnsZero ==
    \A k \in 1..Len(reads) :
        LET r == reads[k]
            avail == 8 * Len(reader.data) - r.before
        IN  /\ avail >= r.n
                   => /\ r.after = r.before + r.n
                      /\ r.value < 2^(r.n)
                      /\ \A b \in 0..(r.n - 1) :
                             (reader.data[((r.before + b) \div 8) + 1]
                                  \div 2^(7 - ((r.before + b) % 8))) % 2
                                 = (r.value \div 2^(r.n - 1 - b)) % 2
            /\ avail < r.n => r.value = 0
            /\ \A j \in 1..(k - 1) :
                   8 * Len(reader.data) - reads[j].before < reads[j].n => r.value = 0

\* ten bits asked of one byte that holds a set bit, and a read after that
ReadAfterOverrun ==
    /\ Len(reads) >= 2
    /\ Len(reader.data) = 1 /\ reader.data[1] # 0
    /\ reads[1].n = 10
    /\ reads[2].n = 1

-----------------------------------------------------------------------------
(* network/streams.py: write_string and read_string *)

\* read_string, line 220: the longest length prefix it accepts
MaxStringLength == 4096

\* write_bytes, lines 29-36, and the loop of write_string, lines 127-128:
\* write_byte for every byte of data. With o bits pending each byte gives
\* its high 8 - o bits to the byte that is open and opens the next with its
\* low o bits
write_bytes(w, data) ==
    LET o == w.bit_index
        hi(b) == b \div 2^o
        lo(b) == (b % 2^o) * 2^(8 - o)
    IN  IF Len(data) = 0 THEN w
        ELSE [buffer |-> w.buffer \o
                  [i \in 1..Len(data) |->
                      (IF i = 1 THEN w.current_byte ELSE lo(data[i - 1])) + hi(data[i])],
              current_byte |-> lo(data[Len(data)]),
              bit_index |-> o]

\* write_string, lines 109-128: encode('ascii', errors='replace') puts '?'
\* for a character outside ASCII; the length written counts the NUL;
\* write_int16 masks it to 16 bits
write_string(w, text) ==
    LET raw_data == [i \in 1..Len(text) |-> IF text[i] < 128 THEN text[i] ELSE 63] \o <<0>>
    IN  write_bytes(write_bits(w, Len(raw_data) % 65536, 16), raw_data)

\* read_string, lines 217-233: read_int16, the sanity check, length times
\* read_byte, the NUL taken off the end, decode('ascii', errors='ignore').
\* A read_byte that finds eight bits returns them, one that does not
\* returns 0 and leaves the cursor at the end of the data
read_string(r) ==
    LET hdr == read_bits(r, 0, 16)
        length == hdr.value
        r1 == hdr.reader
        start == 8 * r1.byte_pos + r1.bit_pos
        end == 8 * r1.total_bytes
        read_byte(q) ==
            IF q + 8 > end THEN 0
            ELSE ((r1.data[(q \div 8) + 1] * 256
                     + (IF q % 8 > 0 THEN r1.data[(q \div 8) + 2] ELSE 0))
                    \div 2^(8 - (q % 8))) % 256
        raw_bytes == [k \in 1..length |-> read_byte(start + 8 * (k - 1))]
        stop == IF start + 8 * length <= end THEN start + 8 * length ELSE end
        IsAscii(b) == b < 128
    IN  IF length <= 0 \/ length > MaxStringLength
        THEN [value |-> <<>>, reader |-> r1]
        ELSE [value |-> SelectSeq(IF raw_bytes[length] = 0
                                  THEN SubSeq(raw_bytes, 1, length - 1)
                                  ELSE raw_bytes, IsAscii),
              reader |-> [r1 EXCEPT !.byte_pos = stop \div 8, !.bit_pos = stop % 8]]

\* the strings written: every ASCII string of up to MaxText characters out
\* of NUL, 'A' and 'B', and 'A' repeated up to and beyond the longest
\* length read_string accepts
Texts ==
    UNION {[1..n -> {0, 65, 66}] : n \in 0..MaxText}
    \cup {[i \in 1..n |-> 65] : n \in {MaxStringLength - 1, MaxStringLength}}

StrInit ==
    str_io = [phase |-> "new", text |-> <<>>, lead |-> 0, trail |-> 0,
              w |-> [buffer |-> <<>>, current_byte |-> 0, bit_index |-> 0],
              r |-> PacketReader(<<>>), got |-> <<>>, after |-> 0, next |-> 0]

\* write_bool for some packets, then write_string
StrWrite ==
    /\ str_io.phase = "new"
    /\ \E text \in Texts, lead \in {0, 1} :
        str_io' = [str_io EXCEPT !.phase = "string", !.text = text, !.lead = lead,
                       !.w = write_string(write_bits(@, 1, lead), text)]
    /\ UNCHANGED <<ent_vars, net_vars, pkt_vars, disp_vars, tcp, bit_vars, quant, ser, udp_loop, tick, login_in, upd, batch>>

\* write_byte for the field behind the string, get_bytes, and a reader on
\* the bytes
StrWriteByte ==
    /\ str_io.phase = "string"
    /\ \E trail \in {90, 255} :
        LET w == flush_bits(write_bits(str_io.w, trail, 8))
        IN  str_io' = [str_io EXCEPT !.phase = "written", !.trail = trail, !.w = w,
                           !.r = PacketReader(w.buffer)]
    /\ UNCHANGED <<ent_vars, net_vars, pkt_vars, disp_vars, tcp, bit_vars, quant, ser, udp_loop, tick, login_in, upd, batch>>

\* read_bool where one was written, then read_string
StrRead ==
    /\ str_io.phase = "written"
    /\ LET got == read_string(read_bits(str_io.r, 0, str_io.lead).reader)
       IN  str_io' = [str_io EXCEPT !.phase = "read", !.got = got.value, !.r = got.reader,
                          !.after = 8 * got.reader.byte_pos + got.reader.bit_pos]
    /\ UNCHANGED <<ent_vars, net_vars, pkt_vars, disp_vars, tcp, bit_vars, quant, ser, udp_loop, tick, login_in, upd, batch>>

\* read_byte for the field behind the string
StrReadByte ==
    /\ str_io.phase = "read"
    /\ LET got == read_bits(str_io.r, 0, 8)
       IN  str_io' = [str_io EXCEPT !.phase = "done", !.next = got.value, !.r = got.reader]
    /\ UNCHANGED <<ent_vars, net_vars, pkt_vars, disp_vars, tcp, bit_vars, quant, ser, udp_loop, tick, login_in, upd, batch>>

StrNext ==
    \/ StrWrite
    \/ StrWriteByte
    \/ StrRead
    \/ StrReadByte

\* C28: what write_string wrote is the 16-bit length of the string plus one,
\* the bytes of the string and a NUL; read_string on it returns the string
\* and leaves the cursor behind the NUL; and the byte written behind the
\* string is the byte read behind it
StringRoundTrip ==
    LET n == Len(str_io.text)
        data == str_io.r.data
        at(k) == IF str_io.lead = 0 THEN data[k]
                 ELSE ((data[k] * 256 + data[k + 1]) \div 2^(8 - str_io.lead)) % 256
    IN  /\ str_io.phase \in {"written", "read", "done"}
               => /\ at(1) * 256 + at(2) = n + 1
                  /\ \A i \in 1..n : at(2 + i) = str_io.text[i]
                  /\ at(n + 3) = 0
                  /\ at(n + 4) = str_io.trail
        /\ str_io.phase \in {"read", "done"}
               => /\ str_io.got = str_io.text
                  /\ str_io.after = str_io.lead + 8 * (n + 3)
        /\ str_io.phase = "done" => str_io.next = str_io.trail

-----------------------------------------------------------------------------
(* network/translation_config.py: TranslationConfig *)

\* The values of one profile are whole multiples of a unit of that profile
\* (a thousandth for the stats, a tenth for the rotation, one for the
\* position); compress and decompress only ever divide one by another.

\* configure, lines 12-28
configure(header_bits, max_total_bits, max_val, range_val) ==
    [precision_header_bits |-> header_bits,
     max_total_bits |-> max_total_bits,
     max_value |-> max_val,
     range |-> range_val,
     min_value |-> max_val - range_val,
     precision_base_bits |->
         IF max_total_bits <= 0 THEN header_bits
         ELSE IF (max_total_bits - 2^header_bits) + 1 < 1 THEN 1
         ELSE (max_total_bits - 2^header_bits) + 1]

\* lines 128-165: GLOBAL_CONFIGS[2] (unit type), GLOBAL_CONFIGS[5] (health,
\* in thousandths), VEC_ROT (in tenths) and VEC_POS
Profiles ==
    {configure(8, 0, 0, 0), configure(10, 0, 1000, 1000),
     configure(4, 16, 63, 126), configure(4, 16, 8192, 16384)}

\* compress, lines 30-79; int() of a quotient that is never negative
compress(c, float_val, priority) ==
    LET fixed == c.max_total_bits <= 0
        max_p == 2^(c.precision_header_bits) - 1
        p == IF fixed THEN 0 ELSE IF priority > max_p THEN max_p ELSE priority
        current_bits == IF fixed THEN c.precision_base_bits ELSE c.precision_base_bits + p
        denom == IF 2^current_bits - 2 <= 0 THEN 1 ELSE 2^current_bits - 2
        clamped == IF float_val > c.max_value THEN c.max_value
                   ELSE IF float_val < c.min_value THEN c.min_value
                   ELSE float_val
    IN  [priority |-> p,
         raw_val |-> IF float_val = 0 THEN 0
                     ELSE IF c.range = 0 THEN 1
                     ELSE (((c.max_value - clamped) * denom) \div c.range) + 1,
         current_bits |-> current_bits]

\* a decompress that counts the steps from 0 and not from 1, for comparison
decompress_from_zero(c, priority, raw_val) ==
    LET current_bits == IF c.max_total_bits <= 0 THEN c.precision_base_bits
                        ELSE c.precision_base_bits + priority
        denom == IF 2^current_bits - 2 <= 0 THEN 1 ELSE 2^current_bits - 2
    IN  IF raw_val = 0 THEN [num |-> 0, den |-> 1]
        ELSE IF c.range = 0 THEN [num |-> c.max_value, den |-> 1]
        ELSE [num |-> c.max_value * denom - raw_val * c.range, den |-> denom]

\* decompress, lines 81-109: the result is the fraction num / den
decompress(c, priority, raw_val) ==
    LET current_bits == IF c.max_total_bits <= 0 THEN c.precision_base_bits
                        ELSE c.precision_base_bits + priority
        denom == IF 2^current_bits - 2 <= 0 THEN 1 ELSE 2^current_bits - 2
    IN  IF raw_val = 0 THEN [num |-> 0, den |-> 1]
        ELSE IF c.range = 0 THEN [num |-> c.max_value, den |-> 1]
        ELSE [num |-> c.max_value * denom - (raw_val - 1) * c.range, den |-> denom]

QInit ==
    quant = [phase |-> "new", config |-> configure(0, 0, 0, 0), v |-> 0,
             out |-> [priority |-> 0, raw_val |-> 0, current_bits |-> 0],
             back |-> [num |-> 0, den |-> 1],
             wire |-> <<>>, consumed |-> 0, got |-> [num |-> 0, den |-> 1]]

\* compress on a value of the profile's range, every one of them where the
\* range is small, or just outside it, with the lowest, the default, the
\* highest and too high a priority
Compress ==
    /\ quant.phase = "new"
    /\ \E c \in Profiles, priority \in {0, 3, 15, 20} :
       \E v \in IF c.range <= 1000 THEN (c.min_value - 1)..(c.max_value + 1)
                ELSE {c.min_value - 1, c.min_value, c.min_value + 1, -1, 0, 1,
                      c.max_value - 1, c.max_value, c.max_value + 1} :
           quant' = [quant EXCEPT !.phase = "compressed", !.config = c, !.v = v,
                         !.out = compress(c, v, priority)]
    /\ UNCHANGED <<ent_vars, net_vars, pkt_vars, disp_vars, tcp, bit_vars, str_io, ser, udp_loop, tick, login_in, upd, batch>>

\* decompress on what compress returned
Decompress ==
    /\ quant.phase = "compressed"
    /\ quant' = [quant EXCEPT !.phase = "done",
                     !.back = decompress(quant.config, quant.out.priority, quant.out.raw_val)]
    /\ UNCHANGED <<ent_vars, net_vars, pkt_vars, disp_vars, tcp, bit_vars, str_io, ser, udp_loop, tick, login_in, upd, batch>>

\* a read_quantized_float that takes every profile for a fixed one and reads
\* no header, for comparison
read_quantized_float_fixed(r, config) ==
    LET data == read_bits(r, 0, config.precision_base_bits)
    IN  [value |-> decompress(config, 0, data.value), reader |-> data.reader]

\* read_quantized_float, streams.py lines 235-252
read_quantized_float(r, config) ==
    IF config.max_total_bits <= 0
    THEN LET data == read_bits(r, 0, config.precision_base_bits)
         IN  [value |-> decompress(config, 0, data.value), reader |-> data.reader]
    ELSE LET header == read_bits(r, 0, config.precision_header_bits)
             data == read_bits(header.reader, 0,
                               config.precision_base_bits + header.value)
         IN  [value |-> decompress(config, header.value, data.value),
              reader |-> data.reader]

\* the scalar on the wire: in dynamic mode the priority in a header of
\* precision_header_bits bits (update_array.py line 107), then the value in
\* the bits compress returned (lines 74, 84, 117), here with a byte behind
WriteQuantized ==
    /\ quant.phase = "compressed"
    /\ LET c == quant.config
           w0 == [buffer |-> <<>>, current_byte |-> 0, bit_index |-> 0]
           w1 == IF c.max_total_bits <= 0 THEN w0
                 ELSE write_bits(w0, quant.out.priority, c.precision_header_bits)
           w2 == write_bits(w1, quant.out.raw_val, quant.out.current_bits)
       IN  quant' = [quant EXCEPT !.phase = "written",
                         !.wire = flush_bits(write_bits(w2, 165, 8)).buffer]
    /\ UNCHANGED <<ent_vars, net_vars, pkt_vars, disp_vars, tcp, bit_vars, str_io, ser, udp_loop, tick, login_in, upd, batch>>

\* read_quantized_float on those bytes; the cursor it leaves is noted in bits
ReadQuantized ==
    /\ quant.phase = "written"
    /\ LET res == read_quantized_float(PacketReader(quant.wire), quant.config)
       IN  quant' = [quant EXCEPT !.phase = "read", !.got = res.value,
                         !.consumed = 8 * res.reader.byte_pos + res.reader.bit_pos]
    /\ UNCHANGED <<ent_vars, net_vars, pkt_vars, disp_vars, tcp, bit_vars, str_io, ser, udp_loop, tick, login_in, upd, batch>>

QNext ==
    \/ Compress
    \/ Decompress
    \/ WriteQuantized
    \/ ReadQuantized

\* C29: what compress returns is 0 for the value 0.0 and for no other, is
\* otherwise floor((maxValue - v) * denom / range) + 1 for v clamped into
\* the profile's range and denom = 2^bits - 2, and is at most 2^bits - 1,
\* bits being the width returned with it
CompressFitsWidth ==
    quant.phase # "new" =>
        LET c == quant.config
            bits == quant.out.current_bits
            raw == quant.out.raw_val
            v == IF quant.v > c.max_value THEN c.max_value
                 ELSE IF quant.v < c.min_value THEN c.min_value
                 ELSE quant.v
        IN  /\ raw = 0 <=> quant.v = 0
            /\ (quant.v # 0 /\ c.range # 0)
                   => raw = (((c.max_value - v) * (2^bits - 2)) \div c.range) + 1
            /\ 0 <= raw /\ raw <= 2^bits - 1

-----------------------------------------------------------------------------
(* network/packets/update_array.py: EntitySerializer, bit by bit *)

\* translation_config.py lines 191-194: the widths of the id fields and of
\* the bank selector, the head of GLOBAL_CONFIGS[2], [3], [4] and [0]
ID_BITS_UNIT == 8
ID_BITS_TEAM == 8
ID_BITS_UNIT_CARGO == 8
BANK_SELECTOR_BITS == 16

\* One call of write_bits is noted as the value and the width it is given;
\* the writer's position moves by the width (PacketWriter.write_bits).
Field(value, n) == [value |-> value, n |-> n]

\* _write_vec, lines 95-117: the highest priority of the profile as the
\* header, once, then the three components in the width compress returns
write_vec(vec, compressor) ==
    LET priority == 2^(compressor.precision_header_bits) - 1
    IN  <<Field(priority, compressor.precision_header_bits)>>
        \o [k \in 1..3 |->
               Field(compress(compressor, vec[k], priority).raw_val,
                     compress(compressor, vec[k], priority).current_bits)]

\* serialize, lines 14-93: the write_bits calls it makes, in order, and
\* whether it raised. The entity has the values of a fresh GameEntity
\* (entity.py lines 29-37): vectors of 0.0, health and energy 1.0, manned.
\* entity.spin does not exist: the SPIN branch raises AttributeError with
\* everything before it written
serialize_calls(e, force_definition) ==
    LET mask == SerMask(e, force_definition)
        vec0 == <<0, 0, 0>>
        stat == compress(configure(10, 0, 1000, 1000), 1000, 3)
        head == <<Field(e.net_id, 32), Field(1, 1), Field(mask, 10),
                  Field(0, BANK_SELECTOR_BITS)>>
        definition ==
            <<Field(e.unit_type, ID_BITS_UNIT), Field(e.team_id, ID_BITS_TEAM),
              Field(e.team_id, ID_BITS_TEAM)>>
            \o (IF e.unit_type = 37 THEN <<Field(0, 32), Field(0, 32)>>
                ELSE IF e.unit_type = 19 THEN <<Field(25, ID_BITS_UNIT_CARGO)>>
                ELSE <<>>)
            \o <<Field(1, 1)>>
        vectors ==
            (IF Has(mask, DEFINITION) THEN definition ELSE <<>>)
            \o (IF Has(mask, POS) THEN write_vec(vec0, configure(4, 16, 8192, 16384)) ELSE <<>>)
            \o (IF Has(mask, VEL) THEN write_vec(vec0, configure(4, 16, 1000, 2000)) ELSE <<>>)
            \o (IF Has(mask, ROT) THEN write_vec(vec0, configure(4, 16, 63, 126)) ELSE <<>>)
        stats ==
            (IF Has(mask, HEALTH) THEN <<Field(stat.raw_val, stat.current_bits)>> ELSE <<>>)
            \o (IF Has(mask, ENERGY) THEN <<Field(stat.raw_val, stat.current_bits)>> ELSE <<>>)
            \o (IF Has(mask, OWNER) THEN <<Field(0, 32)>> ELSE <<>>)
    IN  IF Has(mask, SPIN) THEN [calls |-> head \o vectors, raised |-> TRUE]
        ELSE [calls |-> head \o vectors \o stats, raised |-> FALSE]

SerInit == ser = [phase |-> "new", mask |-> 0, unit_type |-> 0, raised |-> FALSE, bits |-> 0]

\* serialize on a fresh writer, for an entity of some unit type with some
\* pending mask; bits is where the writer stands afterwards
Serialize ==
    /\ ser.phase = "new"
    /\ \E mask \in 0..(2^MaskBits - 1), unit_type \in {5, 19, 37} :
        LET e == [net_id |-> 1, unit_type |-> unit_type, team_id |-> 1,
                  pending_mask |-> mask]
            out == serialize_calls(e, FALSE)
            pos[k \in 0..Len(out.calls)] ==
                IF k = 0 THEN 0 ELSE pos[k - 1] + out.calls[k].n
        IN  ser' = [phase |-> "done", mask |-> mask, unit_type |-> unit_type,
                    raised |-> out.raised, bits |-> pos[Len(out.calls)]]
    /\ UNCHANGED <<ent_vars, net_vars, pkt_vars, disp_vars, tcp, bit_vars, str_io, quant, udp_loop, tick, login_in, upd, batch>>

SerNext == Serialize

\* C32: serialize returns for every mask and unit type, and the bits it
\* wrote are 32 + 1 + 10 and the bank selector, the Definition block of the
\* unit type, 4 + 3 x 16 for each vector, 10 for each stat and 32 for the
\* owner, WEAPON and HARD_SYNC adding none
SerializeBitLength ==
    ser.phase = "done" =>
        LET bit(k) == (ser.mask \div 2^k) % 2
        IN  /\ ~ser.raised
            /\ ser.bits =
                   32 + 1 + 10 + BANK_SELECTOR_BITS
                   + bit(0) * (8 + 8 + 8 + 1
                               + (IF ser.unit_type = 37 THEN 64
                                  ELSE IF ser.unit_type = 19 THEN 8 ELSE 0))
                   + (bit(1) + bit(2) + bit(3) + bit(4)) * (4 + 3 * 16)
                   + (bit(5) + bit(7)) * 10
                   + bit(8) * 32

-----------------------------------------------------------------------------
(* network/udp_handler.py and main.py: an error while a datagram is handled *)

MaxErrors == 2

\* the receive thread as udp_server_loop starts it
UdpLoopInit == udp_loop = [running |-> TRUE, errors |-> 0, caught |-> "none"]

\* where an error may arise in one turn of the loop: in recvfrom, in the
\* handler before it sends, or in sock.sendto under the handler
Faults == {"recvfrom", "handler", "send"}

\* the except clause the error reaches first: the one around the handler in
\* process_packet (lines 101-106), or the one around recvfrom and
\* process_packet in udp_server_loop (lines 1389-1396)
caught_by(where) == IF where = "recvfrom" THEN "udp_server_loop" ELSE "process_packet"

\* a receive thread with no except clause, for comparison: the error ends it
after_raise_uncaught(loop, where) ==
    [running |-> FALSE, errors |-> loop.errors + 1, caught |-> "none"]

\* the thread after the error: both clauses print and go on, process_packet
\* to cursor += bytes_consumed, udp_server_loop to the next recvfrom
after_raise(loop, where) ==
    [running |-> TRUE, errors |-> loop.errors + 1, caught |-> caught_by(where)]

\* the place of the ACK among what the handler sends, 0 when it sends none
AckIndex(d) ==
    IF ~Acked(d) THEN 0
    ELSE CHOOSE k \in 1..Len(Replies(d, 0)) : Replies(d, 0)[k].op = 2

\* process_packet on a datagram whose handler raises at its k-th send, at
\* 0 before any: what was sent before stays sent, and send_standard_ack has
\* counted its sequence number before its sendto
process_packet_raising(addr, d, k) ==
    /\ outgoingSequenceNumber' =
           IF Acked(d) /\ k >= AckIndex(d)
           THEN outgoingSequenceNumber + 1 ELSE outgoingSequenceNumber
    /\ last_udp' = [addr |-> addr, dgram |-> d,
                    replies |-> [j \in 1..(IF k = 0 THEN 0 ELSE k - 1) |->
                                    [to |-> ReplyTo(addr),
                                     pkt |-> Replies(d, outgoingSequenceNumber')[j]]]]
    /\ acks_sent' = IF Acked(d) /\ k > AckIndex(d)
                    THEN [acks_sent EXCEPT ![ReplyTo(addr)] = @ + 1]
                    ELSE acks_sent
    /\ UNCHANGED root_event

\* one turn of udp_server_loop in which something raises
UdpRecvRaises ==
    /\ udp_loop.running
    /\ udp_loop.errors < MaxErrors
    /\ \E where \in Faults :
          /\ \/ /\ where = "recvfrom"
                /\ UNCHANGED <<udp_vars, root_event>>
             \/ /\ where # "recvfrom"
                /\ \E addr \in Addrs, d \in SessionDatagrams :
                    \E k \in 0..Len(Replies(d, 0)) :
                      /\ (where = "handler") = (k = 0)
                      /\ Acked(d) => outgoingSequenceNumber < MaxAcks
                      /\ process_packet_raising(addr, d, k)
          /\ udp_loop' = after_raise(udp_loop, where)
    /\ UNCHANGED <<udp_client_addr, tcp_vars, ent_vars, pkt_vars, disp_vars, tcp,
                   bit_vars, str_io, quant, ser, tick, login_in, upd, batch>>

UdpErrNext ==
    \/ Accept
    \/ SendHelloUdp
    \/ WaitUdp
    \/ LoginClosed
    \/ UdpRecv
    \/ UdpRecvRaises

\* C33: an error raised by a handler or a send while a datagram is handled
\* stays with that datagram: the receive thread keeps running, the step of
\* the error leaves every TCP session as it was, and a datagram handled after
\* it gets every reply of its handler
UdpErrorContained ==
    /\ [](udp_loop.running)
    /\ [][udp_loop'.errors > udp_loop.errors
              => /\ pc' = pc /\ session' = session /\ tcp_log' = tcp_log
                 /\ stop_event' = stop_event /\ ping_loop' = ping_loop]_vars
    /\ [][(udp_loop.errors > 0 /\ udp_loop' = udp_loop /\ last_udp' # last_udp)
              => /\ Len(last_udp'.replies) = Len(Replies(last_udp'.dgram, 0))
                 /\ root_event' = (root_event \/ SetsRootEvent(last_udp'.dgram))]_vars

\* a chat request answered in full after a handler has raised, the TCP
\* session still waiting for its username
DispatchedAfterError ==
    /\ udp_loop.errors > 0
    /\ udp_loop.caught = "process_packet"
    /\ last_udp.dgram.op = 32
    /\ Len(last_udp.replies) = 2
    /\ pc = "username_wait"

-----------------------------------------------------------------------------
(* core/entity_manager.py: get_dirty_packet beside the world loop *)

MaxMarks == 1

\* the clients whose serialization passes run in one tick
Clients == {1, 2}

\* a pass that has not been called
NoPass == [at |-> "idle", name |-> "none", dirty |-> <<>>, sent |-> <<>>,
           marked |-> {}, left |-> <<>>]

TickInit == tick = [start |-> {}, marks |-> 0, pass |-> [c \in Clients |-> NoPass]]

\* what set_pos and set_stats hand to mark_dirty
TickMasks == {POS, BitOr(HEALTH, ENERGY)}

\* whether the call of the pass has been made and has not returned
Running(p) == p.at \in {"listed", "serialized"}

\* the world loop spawns an entity: create_entity without an override id
TickCreate ==
    \E unit_type \in UnitTypes, team_id \in Teams :
        /\ next_net_id <= MaxNetId
        /\ Len(entities) < MaxEntities
        /\ next_net_id' = next_net_id + 1
        /\ entities' = DictSet(entities, NewEntity(next_net_id, unit_type, team_id))
        /\ result' = [op |-> "create_entity", kind |-> "entity", net_id |-> next_net_id]
        /\ UNCHANGED <<net_vars, pkt_vars, disp_vars, tcp, bit_vars, str_io, quant, ser,
                       udp_loop, tick, login_in, upd, batch>>

\* the next tick: every client's pass is still to be called; the entities
\* dirty at its start are noted when the first pass lists them
BeginTick ==
    /\ \A c \in Clients : ~Running(tick.pass[c])
    /\ \E c \in Clients : tick.pass[c].at # "idle"
    /\ tick' = [start |-> {}, marks |-> 0,
                pass |-> [c \in Clients |-> NoPass]]
    /\ UNCHANGED <<ent_vars, net_vars, pkt_vars, disp_vars, tcp, bit_vars, str_io, quant,
                   ser, udp_loop, login_in, upd, batch>>

\* the world loop calls set_pos or set_stats on an entity, at any point of
\* the passes; each running pass notes the call
TickMark ==
    \E i \in 1..Len(entities), mask \in TickMasks :
        /\ tick.marks < MaxMarks
        /\ entities' = [entities EXCEPT ![i] = mark_dirty(entities[i], mask)]
        /\ result' = [op |-> "mark_dirty", kind |-> "none",
                      net_id |-> entities[i].net_id, mask |-> mask]
        /\ tick' = [tick EXCEPT
                       !.marks = @ + 1,
                       !.pass = [c \in Clients |->
                                    IF Running(tick.pass[c])
                                    THEN [tick.pass[c] EXCEPT
                                             !.marked = @ \cup {<<entities[i].net_id, mask>>}]
                                    ELSE tick.pass[c]]]
        /\ UNCHANGED <<next_net_id, net_vars, pkt_vars, disp_vars, tcp, bit_vars, str_io,
                       quant, ser, udp_loop, login_in, upd, batch>>

\* lines 115-121 and 144-150: the list of the dirty entities, and None when
\* it is empty
PassList(c) ==
    \E name \in {"get_dirty_packet", "get_dirty_packet_view"} :
        LET dirty == DirtyIndices(entities)
        IN  /\ tick.pass[c].at = "idle"
            /\ tick' = [tick EXCEPT
                           !.start = IF \A d \in Clients : tick.pass[d].at = "idle"
                                     THEN DirtyIds(entities) ELSE @,
                           !.pass[c] =
                               [NoPass EXCEPT
                                   !.name = name,
                                   !.dirty = dirty,
                                   !.at = IF dirty = <<>> THEN "none" ELSE "listed",
                                   !.left = IF dirty = <<>> THEN PendingMasks(entities)
                                            ELSE <<>>]]
            /\ UNCHANGED <<ent_vars, net_vars, pkt_vars, disp_vars, tcp, bit_vars, str_io,
                           quant, ser, udp_loop, login_in, upd, batch>>

\* lines 123-130 and 152-159: the packet, the entities added, get_bytes; the
\* masks are read from the entities when get_bytes serializes them
PassSerialize(c) ==
    LET p     == tick.pass[c]
        items == Items(p.dirty, FALSE)
    IN  /\ p.at = "listed"
        /\ IF GetBytesRaises(entities, items)
           THEN tick' = [tick EXCEPT !.pass[c].at = "raised",
                                     !.pass[c].left = PendingMasks(entities)]
           ELSE tick' = [tick EXCEPT !.pass[c].at = "serialized",
                                     !.pass[c].sent = get_bytes(entities, TRUE, items).recs]
        /\ entities' = IF GetBytesRaises(entities, items) THEN entities
                       ELSE AfterGetBytes(entities, items)
        /\ UNCHANGED <<next_net_id, result, net_vars, pkt_vars, disp_vars, tcp, bit_vars,
                       str_io, quant, ser, udp_loop, login_in, upd, batch>>

\* lines 132-136 and 161-165: clear_dirty on every listed entity, and the
\* packet is returned
PassClear(c) ==
    LET p == tick.pass[c]
    IN  /\ p.at = "serialized"
        /\ entities' = ClearListed(entities, p.dirty)
        /\ tick' = [tick EXCEPT !.pass[c].at = "packet",
                                !.pass[c].left = PendingMasks(entities')]
        /\ result' = [op |-> p.name, kind |-> "packet",
                      opcode |-> IF p.name = "get_dirty_packet" THEN 14 ELSE 15,
                      payload |-> [stats |-> TRUE,
                                   count |-> LowBits(Len(p.sent), CountBits),
                                   recs |-> p.sent]]
        /\ UNCHANGED <<next_net_id, net_vars, pkt_vars, disp_vars, tcp, bit_vars, str_io,
                       quant, ser, udp_loop, login_in, upd, batch>>

TickNext ==
    \/ TickCreate
    \/ BeginTick
    \/ TickMark
    \/ \E c \in Clients : PassList(c)
    \/ \E c \in Clients : PassSerialize(c)
    \/ \E c \in Clients : PassClear(c)

\* the mask a pass serialized for the entity of a net id, 0 when the entity
\* is not in its packet
SentMask(p, id) ==
    IF \E k \in 1..Len(p.sent) : p.sent[k].net_id = id
    THEN (CHOOSE r \in {p.sent[k] : k \in 1..Len(p.sent)} : r.net_id = id).mask
    ELSE 0

\* the pending mask the pass left on the entity of a net id when it returned
LeftMask(p, id) ==
    IF \E k \in 1..Len(p.left) : p.left[k][1] = id
    THEN (CHOOSE r \in {p.left[k] : k \in 1..Len(p.left)} : r[1] = id)[2]
    ELSE 0

\* C34: when a pass has returned, every bit the world loop marked while it
\* ran is in the mask the pass serialized for the entity or was still in the
\* entity's pending mask at the return
NoDirtyBitLost ==
    \A c \in Clients :
        LET p == tick.pass[c]
        IN  p.at \in {"packet", "none", "raised"} =>
                \A m \in p.marked :
                    BitAnd(m[2], BitOr(SentMask(p, m[1]), LeftMask(p, m[1]))) = m[2]

\* C35: when the passes of both clients have returned, the packet of each
\* holds every entity that was dirty when the tick began
EveryClientSeesTick ==
    (\A c \in Clients : tick.pass[c].at \in {"packet", "none", "raised"}) =>
        \A c \in Clients : \A id \in tick.start :
            /\ tick.pass[c].at = "packet"
            /\ \E k \in 1..Len(tick.pass[c].sent) : tick.pass[c].sent[k].net_id = id

-----------------------------------------------------------------------------
(* main.py: the UDP signal and the session it releases *)

\* C36: the signal that releases a session's wait was raised after the
\* session's Hello(udp-config) was sent: in the step that sends the config
\* and begins the wait, udp_root_received is still clear
SignalRaisedAfterConfig ==
    [][(pc = "sleep" /\ pc' = "wait_udp") => ~root_event']_vars

-----------------------------------------------------------------------------
(* main.py: the login loops, packet by packet *)

\* before a login loop has read a packet
NoBody == [op |-> -1, sub |-> 0, len |-> 0]

LoginInit == login_in = NoBody

\* the login loops with the packet they read kept in view
LoginRecvUsername == \E body \in TcpPackets : recv_username(body) /\ login_in' = body

LoginRecvPassword == \E body \in TcpPackets : recv_password(body) /\ login_in' = body

LoginNext ==
    \/ Accept
    \/ SendHelloUdp
    \/ WaitUdp
    \/ LoginClosed
    \/ LoginRecvUsername
    \/ LoginRecvPassword
    \/ ActiveClosed

\* a login loop has read a packet in this step
LoginRead ==
    /\ pc \in {"username_wait", "password_wait"}
    /\ pc' # "accept"
    /\ <<login_in, tcp_log, pc>>' # <<login_in, tcp_log, pc>>

\* C37: while the server waits for the username or the password, only a
\* 0x21 packet advances the login; a Hello of any sub-command and any other
\* opcode leave the stage where it is; and the step sends Hello(session-key)
\* once when the packet is a Hello with sub-command 2 and not at all otherwise
OnlyLoginAdvances ==
    [][LoginRead =>
          /\ pc' # pc => login_in'.op = 33
          /\ login_in'.op # 33 => pc' = pc
          /\ KeyRequests(tcp_log') - KeyRequests(tcp_log)
                 = (IF login_in'.op = 19 /\ login_in'.len >= 2 /\ login_in'.sub = 2
                    THEN 1 ELSE 0)]_vars

\* the password loop has answered a key request and then read a Hello of
\* another sub-command, and still waits
HelloWhileWaiting ==
    /\ pc = "password_wait"
    /\ KeyRequests(tcp_log) = 1
    /\ login_in.op = 19
    /\ login_in.sub # 2

-----------------------------------------------------------------------------
(* network/packets/update_array.py: UpdateArrayPacket, call after call *)

MaxCalls == 2
MaxListed == 1

\* before a packet object is made
NoUpdateArray ==
    [made |-> FALSE, writer |-> [buffer |-> <<>>, current_byte |-> 0, bit_index |-> 0],
     local_stats |-> FALSE, entities |-> <<>>, returned |-> <<>>]

UpdInit == upd = NoUpdateArray

\* the write_bits calls of a list, in order, on the writer w, in closed
\* form: the bits open in the current byte and then bit n-1 down to bit 0 of
\* each value are cut into bytes, the last one left open when it is not full.
\* The values are below 2^31.
write_calls(w, calls) ==
    LET pos[k \in 0..Len(calls)] == IF k = 0 THEN 0 ELSE pos[k - 1] + calls[k].n
        total == w.bit_index + pos[Len(calls)]
        bit(i) ==
            IF i <= w.bit_index THEN (w.current_byte \div 2^(8 - i)) % 2
            ELSE LET at == i - w.bit_index
                     f  == CHOOSE k \in 1..Len(calls) : pos[k - 1] < at /\ at <= pos[k]
                     up == pos[f] - at
                 IN  IF up >= 31 THEN 0 ELSE (calls[f].value \div 2^up) % 2
        octet(j) ==
            LET b(k) == IF 8 * (j - 1) + k <= total THEN bit(8 * (j - 1) + k) ELSE 0
            IN  128 * b(1) + 64 * b(2) + 32 * b(3) + 16 * b(4)
                + 8 * b(5) + 4 * b(6) + 2 * b(7) + b(8)
    IN  IF pos[Len(calls)] = 0 THEN w
        ELSE [buffer |-> w.buffer \o [j \in 1..(total \div 8) |-> octet(j)],
              current_byte |-> IF total % 8 = 0 THEN 0 ELSE octet(total \div 8 + 1),
              bit_index |-> total % 8]

\* get_bytes, lines 146-171: what one call writes: the local stats or the
\* bit that says there are none, the count, and every entity added
RECURSIVE entity_calls(_)
entity_calls(items) ==
    IF items = <<>> THEN <<>>
    ELSE serialize_calls(Head(items).entity, Head(items).force_spawn).calls
         \o entity_calls(Tail(items))

get_bytes_calls(local_stats, items) ==
    LET stat == compress(configure(10, 0, 1000, 1000), 1000, 3)
    IN  (IF local_stats
         THEN <<Field(1, 1), Field(0, 5), Field(stat.raw_val, stat.current_bits),
                Field(stat.raw_val, stat.current_bits)>>
         ELSE <<Field(0, 1)>>)
        \o <<Field(Len(items), 8)>>
        \o entity_calls(items)

\* UpdateArrayPacket.get_bytes on the packet p: the calls go to self.writer,
\* PacketWriter.get_bytes flushes it and returns its whole buffer
upd_get_bytes(p) ==
    LET w == flush_bits(write_calls(p.writer, get_bytes_calls(p.local_stats, p.entities)))
    IN  [p EXCEPT !.writer = w, !.returned = Append(@, w.buffer)]

\* __init__, lines 119-131: the timestamp of a view update, the sequence id
NewUpdateArray ==
    \E sequence_id \in {1, 2}, is_view_update \in BOOLEAN, ticks \in {29} :
        /\ upd' = [NoUpdateArray EXCEPT
                      !.made = TRUE,
                      !.writer = write_calls(@, (IF is_view_update
                                                 THEN <<Field(ticks, 32)>> ELSE <<>>)
                                                \o <<Field(sequence_id, 32)>>)]
        /\ upd # upd'
        /\ UNCHANGED <<ent_vars, net_vars, pkt_vars, disp_vars, tcp, bit_vars, str_io,
                       quant, ser, udp_loop, tick, login_in, batch>>

\* set_local_stats(1.0, 1.0), before the packet is serialized
SetLocalStats ==
    /\ upd.made
    /\ upd.returned = <<>>
    /\ ~upd.local_stats
    /\ upd' = [upd EXCEPT !.local_stats = TRUE]
    /\ UNCHANGED <<ent_vars, net_vars, pkt_vars, disp_vars, tcp, bit_vars, str_io,
                   quant, ser, udp_loop, tick, login_in, batch>>

\* add_entity(entity, force_spawn), before the packet is serialized
UpdAddEntity ==
    \E mask \in {POS, HEALTH, BitOr(BitOr(DEFINITION, HEALTH), POS)}, force_spawn \in BOOLEAN :
        /\ upd.made
        /\ upd.returned = <<>>
        /\ Len(upd.entities) < MaxListed
        /\ upd' = [upd EXCEPT !.entities =
                      Append(@, [entity |-> [PacketEntity EXCEPT !.pending_mask = mask],
                                 force_spawn |-> force_spawn])]
        /\ UNCHANGED <<ent_vars, net_vars, pkt_vars, disp_vars, tcp, bit_vars, str_io,
                       quant, ser, udp_loop, tick, login_in, batch>>

\* packet.get_bytes()
UpdGetBytes ==
    /\ upd.made
    /\ Len(upd.returned) < MaxCalls
    /\ upd' = upd_get_bytes(upd)
    /\ UNCHANGED <<ent_vars, net_vars, pkt_vars, disp_vars, tcp, bit_vars, str_io,
                   quant, ser, udp_loop, tick, login_in, batch>>

UpdNext ==
    \/ NewUpdateArray
    \/ SetLocalStats
    \/ UpdAddEntity
    \/ UpdGetBytes

\* C38: get_bytes called again on the same packet, with no entity added in
\* between, returns the bytes it returned before
GetBytesRepeatable ==
    \A j, k \in 1..Len(upd.returned) : upd.returned[j] = upd.returned[k]

-----------------------------------------------------------------------------
(* network/udp_handler.py: the loop of process_packet, turn by turn *)

MaxDatagram == 4

\* the bytes datagrams are made of here: 0x00, the lengths 0, 1 and 3 behind
\* it, and 0x08
BatchBytes == {0, 1, 3, 8}

BatchData == UNION {[1..n -> BatchBytes] : n \in 0..MaxDatagram}

\* before process_packet is called
NoBatch == [at |-> "idle", data |-> <<>>, payload |-> <<>>, cursor |-> 0,
            spans |-> <<>>, turns |-> 0]

BatchInit == batch = NoBatch

\* a sizing that counts the string of a 0x00 packet without its two leading
\* bytes, for comparison
bytes_consumed_body_only(payload, cursor) ==
    IF payload[cursor + 1] = 0
    THEN IF Len(payload) - cursor >= 2
         THEN IF cursor + 2 + payload[cursor + 2] <= Len(payload)
              THEN payload[cursor + 2] ELSE -1
         ELSE -1
    ELSE Len(payload) - cursor

\* lines 67-98: the size of the packet at the cursor, -1 where the loop
\* breaks: a 0x00 packet is opcode, length byte and string, any other packet
\* is the rest of the payload
bytes_consumed(payload, cursor) ==
    IF payload[cursor + 1] = 0
    THEN IF Len(payload) - cursor >= 2
         THEN IF cursor + 2 + payload[cursor + 2] <= Len(payload)
              THEN 2 + payload[cursor + 2] ELSE -1
         ELSE -1
    ELSE Len(payload) - cursor

\* lines 43-59: process_packet is called; it returns at once on no data and
\* on an empty payload
BatchBegin ==
    \E data \in BatchData :
        /\ batch.at # "loop"
        /\ batch' = [NoBatch EXCEPT
                        !.data = data,
                        !.payload = unpack_payload(data),
                        !.at = IF unpack_payload(data) = <<>> THEN "done" ELSE "loop"]
        /\ UNCHANGED <<ent_vars, net_vars, pkt_vars, disp_vars, tcp, bit_vars, str_io,
                       quant, ser, udp_loop, tick, login_in, upd>>

\* lines 61-112: the test of the while and one turn of its body: the packet
\* at the cursor is sized, dispatched, and the cursor moves behind it
BatchTurn ==
    /\ batch.at = "loop"
    /\ IF batch.cursor >= Len(batch.payload)
       THEN batch' = [batch EXCEPT !.at = "done"]
       ELSE LET size == bytes_consumed(batch.payload, batch.cursor)
            IN  IF size < 0
                THEN batch' = [batch EXCEPT !.at = "done", !.turns = @ + 1]
                ELSE batch' = [batch EXCEPT
                                  !.spans = Append(@, [from |-> batch.cursor,
                                                       size |-> size,
                                                       op |-> batch.payload[batch.cursor + 1]]),
                                  !.cursor = @ + size,
                                  !.turns = @ + 1]
    /\ UNCHANGED <<ent_vars, net_vars, pkt_vars, disp_vars, tcp, bit_vars, str_io,
                   quant, ser, udp_loop, tick, login_in, upd>>

BatchNext ==
    \/ BatchBegin
    \/ BatchTurn

\* the packet at the cursor is a 0x00 packet that declares more bytes than
\* the payload has left
OverLong(b) ==
    /\ b.cursor + 2 <= Len(b.payload)
    /\ b.payload[b.cursor + 1] = 0
    /\ b.cursor + 2 + b.payload[b.cursor + 2] > Len(b.payload)

\* C39: process_packet comes to its end on every datagram; a turn after
\* which the loop goes on has dispatched one packet and moved the cursor by
\* its size, one byte at least; the dispatched packets lie inside the payload
\* and share no byte; a packet whose opcode is not 0x00 reaches to the end of
\* the payload; and at a 0x00 packet that declares more than is left the
\* loop ends with nothing dispatched for it
ProcessPacketTerminates ==
    /\ [](/\ batch.cursor <= Len(batch.payload)
          /\ batch.turns <= Len(batch.payload)
          /\ \A k \in 1..Len(batch.spans) :
                /\ batch.spans[k].size >= 1
                /\ batch.spans[k].from + batch.spans[k].size <= Len(batch.payload)
                /\ k > 1 => batch.spans[k - 1].from + batch.spans[k - 1].size
                                <= batch.spans[k].from
                /\ batch.spans[k].op # 0 =>
                      batch.spans[k].from + batch.spans[k].size = Len(batch.payload))
    /\ [][(batch.at = "loop" /\ batch'.at = "loop" /\ batch' # batch) =>
             /\ batch'.cursor >= batch.cursor + 1
             /\ Len(batch'.spans) = Len(batch.spans) + 1
             /\ batch'.spans[Len(batch'.spans)].from = batch.cursor
             /\ batch'.spans[Len(batch'.spans)].size = batch'.cursor - batch.cursor]_vars
    /\ [][(batch.at = "loop" /\ OverLong(batch) /\ batch' # batch) =>
             /\ batch'.at = "done"
             /\ batch'.spans = batch.spans]_vars
    /\ (batch.at = "loop") ~> (batch.at = "done")

\* a datagram of a 0x00 packet with a string of one byte and a packet
\* behind it, handled to its end
BatchOfTwoDone ==
    /\ batch.at = "done"
    /\ Len(batch.spans) = 2
    /\ batch.spans[1] = [from |-> 0, size |-> 3, op |-> 0]
    /\ batch.spans[2].op = 8

-----------------------------------------------------------------------------
(* Specifications *)

Init == EntInit /\ NetInit /\ PktInit /\ DispInit /\ TcpInit /\ BitsInit /\ StrInit /\ QInit /\ SerInit
        /\ UdpLoopInit /\ TickInit /\ LoginInit /\ UpdInit /\ BatchInit

\* the entity manager and its callers
SpecEnt == Init /\ [][EntNext]_vars

\* one UpdateArrayPacket filled and serialized
SpecPkt == Init /\ [][PktNext]_vars

\* the TCP accept loop, the ping threads and the UDP receiver
SpecNet == Init /\ [][NetNext]_vars

\* the accept loop and the ping threads; a started thread is scheduled again
\* and again, and its wait returns after two seconds at the latest
SpecPing == Init /\ [][PingNext]_vars
FairPing == SpecPing /\ \A s \in 1..MaxSessions : WF_vars(PingLoop(s))

\* one PacketWriter, and one PacketReader on its bytes
SpecBits == Init /\ [][BitsNext]_vars

\* one string and the byte behind it, written and read back
SpecStr == Init /\ [][StrNext]_vars

\* one value through compress and decompress
SpecQ == Init /\ [][QNext]_vars

\* one entity through EntitySerializer.serialize
SpecSer == Init /\ [][SerNext]_vars

\* one TCP connection and its receive loop
SpecTcp == Init /\ [][TcpNext]_vars

\* the two dispatchers, on payloads given as bytes
SpecDisp == Init /\ [][DispNext]_vars

\* the UDP receiver alone, with every datagram of Datagrams
SpecUdp == Init /\ [][UdpNext]_vars

\* the UDP receiver with errors in it, beside the handshake thread
SpecUdpErr == Init /\ [][UdpErrNext]_vars

\* the world loop and the passes of two clients, step by step
SpecTick == Init /\ [][TickNext]_vars

\* the accept loop up to the end of the login, each packet read in view
SpecLogin == Init /\ [][LoginNext]_vars

\* one UpdateArrayPacket filled and then serialized more than once
SpecUpd == Init /\ [][UpdNext]_vars

\* process_packet on one datagram after another; the thread that runs the
\* loop is scheduled again and again
SpecBatch == Init /\ [][BatchNext]_vars
FairBatch == SpecBatch /\ WF_vars(BatchTurn)

\* the handshake thread is never suspended for ever between two of its own
\* steps: the sleep ends and the wait returns at its timeout at the latest
FairNet == SpecNet /\ WF_vars(SendHelloUdp) /\ WF_vars(WaitUdp)

====
